---- MODULE Spec2Model ----
(***************************************************************************)
(* Model of the rusty-ircd core (src/src/irc.rs): the namespace registry   *)
(* (Core), the User entity and its teardown, the NICK / USER registration  *)
(* handshake of the command dispatcher, and JOIN.                          *)
(*                                                                         *)
(* Every mutex-protected region of the source is one atomic step; a        *)
(* handler that takes a lock several times is a chain of steps linked by   *)
(* the per-client program counter pc, so that other clients interleave     *)
(* between its lock regions exactly where the source allows it.            *)
(*                                                                         *)
(* Names are sequences of ASCII codes, so that case folding is computed.   *)
(***************************************************************************)
EXTENDS Integers, Sequences, FiniteSets, TLC

(* ------------------------------ bounds -------------------------------- *)
NumClients == 2
MaxOps == 5
MaxChanOps == 6
MaxMemberOps == 7
MaxIds == 4
MaxTalkOps == 4
MaxBufOps == 4
MaxFrames == 2
MaxMiddles == 16
MaxLines == 2

Clients == 1..NumClients

(* ------------------------------ names --------------------------------- *)
NoName == <<>>
NoStr == ""

nick_a == <<97>>
nick_A == <<65>>
nick_b == <<98>>
nick_1 == <<49>>

Nicks == {nick_a, nick_A, nick_b, nick_1}
ChanNicks == {nick_a, nick_b, <<99>>}

chan_x == <<35, 120>>
chan_bad == <<120>>
ChanNames == {chan_x, chan_bad}
chan_y == <<35, 121>>
PartTargets == {<<>>, <<chan_x>>, <<chan_y, chan_x>>}
TopicChans == {chan_x, chan_y}
MsgTargets == {<<nick_a>>, <<nick_b, chan_x>>}
MsgParams == {0, 1, 2}
TopicParams == {0, 1, 2}
UserArgs == {<<"u1", "r1">>, <<"u2", "r2">>}
ParamCounts == {3, 4}

IsLetter(ch) == (ch >= 65 /\ ch <= 90) \/ (ch >= 97 /\ ch <= 122)
IsDigit(ch) == ch >= 48 /\ ch <= 57
IsSpecial(ch) == ch \in {91, 92, 93, 94, 95, 96, 123, 124, 125}

valid_nick(n) ==
    /\ Len(n) >= 1
    /\ Len(n) <= 9
    /\ IsLetter(n[1]) \/ IsSpecial(n[1])
    /\ \A i \in 2..Len(n) : IsLetter(n[i]) \/ IsDigit(n[i]) \/ IsSpecial(n[i]) \/ n[i] = 45

valid_channel(name) ==
    /\ Len(name) >= 1
    /\ Len(name) <= 50
    /\ name[1] \in {35, 38, 43, 33}
    /\ \A i \in 1..Len(name) : name[i] \notin {32, 44, 58, 7, 0, 13, 10}

FoldChar(ch) == IF ch >= 65 /\ ch <= 94 THEN ch + 32 ELSE ch
Fold(n) == [i \in 1..Len(n) |-> FoldChar(n[i])]

(* ------------------------------ state --------------------------------- *)
(* namespace : Core.namespace, name -> NamedEntity                         *)
(* ctype     : Client's ClientType tag                                     *)
(* proto     : the ProtoUser of a client in the handshake                  *)
(* users     : the User object built for client c (its id is c)            *)
(* chans     : the Channel objects ever allocated, by allocation order     *)
(* pc, cur   : position and locals of the handler each client is running:  *)
(*             the name and the Arc<Channel> it works on (chan, obj), the  *)
(*             targets still to process, the Arc<Channel>s a scan cloned   *)
(*             (held), the Arc<User> it upgraded (user)                    *)
(* ret       : the value the last finished handler returned                *)
(* outbox    : peer-originated lines written to each client's connection   *)
(* ops       : number of commands the dispatcher may still take            *)
(* id_counter: Core.id_counter                                             *)
(* id_calls  : the assign_id call each connection is in: its position, the *)
(*             number of ids that had been returned when it began, and the *)
(*             value it read under the lock                                *)
(* id_log    : the ids returned so far, in the order the calls returned    *)
(* buffer    : MessageBuffer.buffer, the char array (position p of the     *)
(*             source is buffer[p + 1])                                    *)
(* index     : MessageBuffer.index                                         *)
(* buf_ret   : the last call on the buffer and what it returned            *)
(* stream    : the frames the peer sends on the connection                 *)
(* pending   : the bytes of the stream not yet read from the socket        *)
(* frames    : the strings extract has yielded to the reader, in order     *)
(* reading   : the reader's position: "read" before an append, "drain"     *)
(*             while it calls extract                                      *)
(* message   : the frame given to parse_message                            *)
(* parsed    : what parse_message returned for it                          *)
(* rpl       : the send_rpl call in progress: its position and locals      *)
VARIABLES namespace, ctype, proto, users, chans, pc, cur, ret, outbox, ops,
          id_counter, id_calls, id_log,
          buffer, index, buf_ret, stream, pending, frames, reading,
          message, parsed, rpl

vars == <<namespace, ctype, proto, users, chans, pc, cur, ret, outbox, ops,
          id_counter, id_calls, id_log,
          buffer, index, buf_ret, stream, pending, frames, reading,
          message, parsed, rpl>>

corevars == <<namespace, ctype, proto, users, chans, pc, cur, ret, outbox, ops>>

idvars == <<id_counter, id_calls, id_log>>

bufvars == <<buffer, index, buf_ret, stream, pending, frames, reading>>

parsevars == <<message, parsed>>

iovars == <<bufvars, parsevars, rpl>>

NoProto == [nick |-> NoName, username |-> NoStr, real_name |-> NoStr]
NoUser == [nick |-> NoName, username |-> NoStr, real_name |-> NoStr, channel_list |-> <<>>]
NoCmd == [cmd |-> "none", nick |-> NoName, chan |-> NoName, obj |-> 0,
          targets |-> <<>>, held |-> {}, user |-> 0, notice |-> FALSE,
          nparams |-> 0, text |-> NoStr]

NoEntity == [kind |-> "None", ref |-> 0]
UserEntity(c) == [kind |-> "User", ref |-> c]
ChanEntity(id) == [kind |-> "Chan", ref |-> id]

(* The value a handler returned to the dispatcher: who, and Ok or the error. *)
Ret(c, val) == [client |-> c, val |-> val]

Line(cmd, from, arg) == [cmd |-> cmd, from |-> from, arg |-> arg]

NoCall == [st |-> "idle", before |-> 0, val |-> 0]

(* ---------------------------- MessageBuffer --------------------------- *)
MESSAGE_SIZE == 512

CR == 13
LF == 10

(* MessageBuffer::new *)
NewBuffer == [p \in 1..MESSAGE_SIZE |-> 0]

NoBufRet == [op |-> "none", ok |-> FALSE, out |-> <<>>]

(* `byte as char` gives the char whose code point is the byte; a String    *)
(* built from chars holds the UTF-8 encoding of each: one byte below 128,  *)
(* two bytes from 128 to 255.                                              *)
Utf8(ch) == IF ch < 128 THEN <<ch>> ELSE <<192 + (ch \div 64), 128 + (ch % 64)>>

RECURSIVE extend(_)
extend(chars) ==
    IF chars = <<>> THEN <<>>
    ELSE IF Len(chars) = 1 THEN Utf8(chars[1])
    ELSE extend(SubSeq(chars, 1, Len(chars) \div 2)) \o extend(SubSeq(chars, (Len(chars) \div 2) + 1, Len(chars)))

(* the offset after the first CR LF below index, 0 for None                *)
get_eol(buf, idx) ==
    LET hits == {i \in 1..(idx - 1) : buf[(i - 1) + 1] = CR /\ buf[i + 1] = LF}
    IN IF hits = {} THEN 0 ELSE (CHOOSE i \in hits : \A j \in hits : i <= j) + 1

shift_bytes_to_start(buf, idx, start_index) ==
    [buffer |-> [p \in 1..MESSAGE_SIZE |-> IF p <= idx - start_index THEN buf[p + start_index] ELSE buf[p]],
     index |-> idx - start_index]

extract(buf, idx) ==
    IF idx = 0
    THEN [some |-> FALSE, out |-> <<>>, buffer |-> buf, index |-> idx]
    ELSE IF get_eol(buf, idx) # 0
    THEN [some |-> TRUE, out |-> extend(SubSeq(buf, 1, get_eol(buf, idx)))]
         @@ shift_bytes_to_start(buf, idx, get_eol(buf, idx))
    ELSE [some |-> TRUE, out |-> extend(SubSeq(buf, 1, idx)), buffer |-> buf, index |-> 0]

append_unchecked(buf, idx, message_string) ==
    [ok |-> TRUE,
     buffer |-> [p \in 1..MESSAGE_SIZE |->
                   IF p > idx /\ p <= idx + Len(message_string) THEN message_string[p - idx] ELSE buf[p]],
     index |-> idx + Len(message_string)]

append(buf, idx, message_string) ==
    IF Len(message_string) > MESSAGE_SIZE - idx
    THEN [ok |-> FALSE, buffer |-> buf, index |-> idx]
    ELSE [ok |-> TRUE,
          buffer |-> [p \in 1..MESSAGE_SIZE |->
                        IF p > idx /\ p <= idx + Len(message_string) THEN message_string[p - idx] ELSE buf[p]],
          index |-> idx + Len(message_string)]

NoParsed == [done |-> FALSE]
NoRpl == [pc |-> "idle"]

(* no connection is being read, nothing is being parsed or sent            *)
IoIdle ==
    /\ buffer = NewBuffer
    /\ index = 0
    /\ buf_ret = NoBufRet
    /\ stream = <<>>
    /\ pending = <<>>
    /\ frames = <<>>
    /\ reading = "read"
    /\ message = <<>>
    /\ parsed = NoParsed
    /\ rpl = NoRpl

(* the ids of the connections of the model: assign_id was called once for  *)
(* each when it was accepted                                               *)
IdsAssigned ==
    /\ id_counter = NumClients
    /\ id_calls = [c \in Clients |-> NoCall]
    /\ id_log = [i \in 1..NumClients |-> i]

Init ==
    /\ IdsAssigned
    /\ IoIdle
    /\ namespace = <<>>
    /\ ctype = [c \in Clients |-> "Unregistered"]
    /\ proto = [c \in Clients |-> NoProto]
    /\ users = [c \in Clients |-> NoUser]
    /\ chans = <<>>
    /\ pc = [c \in Clients |-> "idle"]
    /\ cur = [c \in Clients |-> NoCmd]
    /\ ret = Ret(0, "none")
    /\ outbox = [c \in Clients |-> {}]
    /\ ops = MaxOps

(* ------------------------------ maps ---------------------------------- *)
MapRemove(m, k) == [x \in DOMAIN m \ {k} |-> m[x]]
MapInsert(m, k, v) == [x \in DOMAIN m \cup {k} |-> IF x = k THEN v ELSE m[x]]

(* --------------------------- Core operations -------------------------- *)
contains_key(ns, name) == name \in DOMAIN ns

insert_name_ok(ns, name) == ~contains_key(ns, name)
insert_name(ns, name, item) == IF ~contains_key(ns, name) THEN MapInsert(ns, name, item) ELSE ns

remove_name(ns, name) == MapRemove(ns, name)

get_name_miss(ns, name) == NoEntity

get_name(ns, name) == IF contains_key(ns, name) THEN ns[name] ELSE NoEntity

get_nick(ns, name) == IF get_name(ns, name).kind = "User" THEN get_name(ns, name).ref ELSE 0

get_chan(ns, name) == IF get_name(ns, name).kind = "Chan" THEN get_name(ns, name).ref ELSE 0

(* A Weak<User> upgrades while the owning client, or a handler that        *)
(* upgraded it before, still holds an Arc.                                 *)
UserLive(c) ==
    \/ ctype[c] = "User"
    \/ \E h \in Clients : cur[h].user = c

(* A Weak<Channel> upgrades while the namespace or a running handler holds *)
(* an Arc of the object.                                                   *)
ChanAlive(id) ==
    \/ \E k \in DOMAIN namespace : namespace[k] = ChanEntity(id)
    \/ \E c \in Clients : cur[c].obj = id
    \/ \E c \in Clients : id \in cur[c].held

(* ------------------------------ Channel ------------------------------- *)
(* members: member key (derived from the nick) -> user ref and flags       *)
NewChannel(name) == [name |-> name, topic |-> NoStr, members |-> <<>>]

get_user_key(ch, nick) == IF nick \in DOMAIN ch.members THEN nick ELSE NoName
is_joined(ch, nick) == get_user_key(ch, nick) # NoName
is_empty(ch) == DOMAIN ch.members = {}
add_user(ch, c, nick, flags) == [ch EXCEPT !.members = MapInsert(@, nick, [user |-> c, flags |-> flags])]
is_op(ch, nick) == nick \in DOMAIN ch.members /\ ch.members[nick].flags = "Op"
set_topic(ch, text) == [ch EXCEPT !.topic = text]
rm_key(ch, key) == [ch EXCEPT !.members = MapRemove(@, key)]
update_nick(ch, old, new) ==
    IF old \in DOMAIN ch.members
    THEN [ch EXCEPT !.members = MapInsert(MapRemove(@, old), new, ch.members[old])]
    ELSE ch

(* the clients a broadcast on ch reaches: members whose User upgrades     *)
Recipients(ch) == {ch.members[k].user : k \in {x \in DOMAIN ch.members : UserLive(ch.members[x].user)}}


(* ---------------------------- dispatcher ------------------------------ *)
(* A command is taken from a connection whose previous handler returned.   *)
Begin(c) ==
    /\ pc[c] = "idle"
    /\ ctype[c] \in {"Unregistered", "ProtoUser", "User"}
    /\ ops > 0
    /\ ops' = ops - 1
    /\ UNCHANGED <<idvars, iovars>>

(* The handler returns val: its locals (among them a held Arc<Channel>)    *)
(* go out of scope.                                                        *)
Finish(c, val) ==
    /\ pc' = [pc EXCEPT ![c] = "idle"]
    /\ cur' = [cur EXCEPT ![c] = NoCmd]
    /\ ret' = Ret(c, val)

Goto(c, label) == pc' = [pc EXCEPT ![c] = label]

(* The handler goes on to its next lock region with these locals.          *)
Continue(c, label, locals) ==
    /\ pc' = [pc EXCEPT ![c] = label]
    /\ cur' = [cur EXCEPT ![c] = locals]
    /\ UNCHANGED ret

(* ------------------------------ register ------------------------------ *)
register_swapped(c, nick, username, real_name) ==
    /\ users' = [users EXCEPT ![c] = [nick |-> nick, username |-> real_name, real_name |-> username, channel_list |-> <<>>]]
    /\ IF insert_name_ok(namespace, nick)
       THEN /\ namespace' = insert_name(namespace, nick, UserEntity(c))
            /\ ctype' = [ctype EXCEPT ![c] = "User"]
            /\ proto' = [proto EXCEPT ![c] = NoProto]
            /\ Finish(c, "Ok")
       ELSE /\ Continue(c, "reg_drop", NoCmd)
            /\ UNCHANGED <<namespace, ctype, proto>>

(* Core::register: User::new, then insert_name; on success the caller      *)
(* stores ClientType::User. On failure the `?` returns and the new User    *)
(* is dropped on the way out (pc "reg_drop").                              *)
register(c, nick, username, real_name) ==
    /\ users' = [users EXCEPT ![c] = [nick |-> nick, username |-> username, real_name |-> real_name, channel_list |-> <<>>]]
    /\ IF insert_name_ok(namespace, nick)
       THEN /\ namespace' = insert_name(namespace, nick, UserEntity(c))
            /\ ctype' = [ctype EXCEPT ![c] = "User"]
            /\ proto' = [proto EXCEPT ![c] = NoProto]
            /\ Finish(c, "Ok")
       ELSE /\ Continue(c, "reg_drop", NoCmd)
            /\ UNCHANGED <<namespace, ctype, proto>>

(* Drop for User, run on the User that a failed register built: its        *)
(* channel_list is empty, so the body is remove_name(self.get_nick()).     *)
RegisterDrop(c) ==
    /\ pc[c] = "reg_drop"
    /\ namespace' = remove_name(namespace, users[c].nick)
    /\ users' = [users EXCEPT ![c] = NoUser]
    /\ Finish(c, "NicknameInUse")
    /\ UNCHANGED <<ctype, proto, chans, outbox, ops, idvars, iovars>>

(* --------------------------- try_nick_change -------------------------- *)
(* One step: the namespace lock is held from the first line to the last.   *)
try_nick_change(c) ==
    /\ pc[c] = "nick_change"
    /\ LET new_nick == cur[c].nick
           old_nick == users[c].nick
           chanlist == users[c].channel_list
           upgraded == {k \in DOMAIN chanlist : ChanAlive(chanlist[k])}
           touched == {chanlist[k] : k \in upgraded}
       IN IF contains_key(namespace, new_nick)
          THEN /\ Finish(c, "NicknameInUse")
               /\ UNCHANGED <<namespace, users, chans>>
          ELSE /\ Finish(c, "Ok")
               /\ IF contains_key(namespace, old_nick)
                  THEN /\ namespace' = MapInsert(MapRemove(namespace, old_nick), new_nick, namespace[old_nick])
                       /\ users' = [users EXCEPT ![c].nick = new_nick,
                                                 ![c].channel_list = [k \in upgraded |-> chanlist[k]]]
                       /\ chans' = [id \in DOMAIN chans |->
                                      IF id \in touched THEN update_nick(chans[id], old_nick, new_nick) ELSE chans[id]]
                  ELSE UNCHANGED <<namespace, users, chans>>
    /\ UNCHANGED <<ctype, proto, outbox, ops, idvars, iovars>>

(* -------------------------------- NICK -------------------------------- *)
(* nick(): the argument checks and the get_name lookup, then the arm of    *)
(* the match on the client type. The User arm and the registering          *)
(* ProtoUser arm go on to a second lock region.                            *)
nick_unregistered(c, n) ==
    /\ ctype' = [ctype EXCEPT ![c] = "ProtoUser"]
    /\ proto' = [proto EXCEPT ![c] = [NoProto EXCEPT !.nick = n]]
    /\ Finish(c, "Ok")

nick_user(c, n) ==
    /\ Continue(c, "nick_change", [NoCmd EXCEPT !.cmd = "NICK", !.nick = n])
    /\ UNCHANGED <<ctype, proto>>

nick_proto(c, n) ==
    IF proto[c].nick # NoName
    THEN /\ proto' = [proto EXCEPT ![c].nick = n]
         /\ Finish(c, "Ok")
         /\ UNCHANGED ctype
    ELSE /\ Continue(c, "nick_register", [NoCmd EXCEPT !.cmd = "NICK", !.nick = n])
         /\ UNCHANGED <<ctype, proto>>

nick(c, n) ==
    /\ Begin(c)
    /\ UNCHANGED <<namespace, users, chans, outbox>>
    /\ IF ~valid_nick(n)
       THEN /\ Finish(c, "ErroneusNickname")
            /\ UNCHANGED <<ctype, proto>>
       ELSE IF get_name(namespace, n) # NoEntity
       THEN /\ Finish(c, "NicknameInUse")
            /\ UNCHANGED <<ctype, proto>>
       ELSE CASE ctype[c] = "Unregistered" -> nick_unregistered(c, n)
              [] ctype[c] = "User" -> nick_user(c, n)
              [] ctype[c] = "ProtoUser" -> nick_proto(c, n)

NickRegister(c) ==
    /\ pc[c] = "nick_register"
    /\ register(c, cur[c].nick, proto[c].username, proto[c].real_name)
    /\ UNCHANGED <<chans, outbox, ops, idvars, iovars>>

(* -------------------------------- USER -------------------------------- *)
user_unregistered(c, username, real_name) ==
    /\ ctype' = [ctype EXCEPT ![c] = "ProtoUser"]
    /\ proto' = [proto EXCEPT ![c] = [NoProto EXCEPT !.username = username, !.real_name = real_name]]
    /\ Finish(c, "Ok")
    /\ UNCHANGED <<namespace, users>>

user_registered_accepts(c) ==
    /\ Finish(c, "Ok")
    /\ UNCHANGED <<namespace, ctype, proto, users>>

user_registered(c) ==
    /\ Finish(c, "AlreadyRegistred")
    /\ UNCHANGED <<namespace, ctype, proto, users>>

(* The arm without a pending nick locks proto_user_ref while the guard     *)
(* `proto_user` of the same std Mutex is still alive: the second lock()    *)
(* either blocks forever or panics, and the assignments never run.         *)
user_proto(c, username, real_name) ==
    IF proto[c].nick # NoName
    THEN register(c, proto[c].nick, username, real_name)
    ELSE /\ \E outcome \in {"blocked", "panicked"} : Continue(c, outcome, NoCmd)
         /\ UNCHANGED <<namespace, ctype, proto, users>>

user(c, username, real_name, nparams) ==
    /\ Begin(c)
    /\ UNCHANGED <<chans, outbox>>
    /\ IF nparams # 4
       THEN /\ Finish(c, "NeedMoreParams")
            /\ UNCHANGED <<namespace, ctype, proto, users>>
       ELSE CASE ctype[c] = "Unregistered" -> user_unregistered(c, username, real_name)
              [] ctype[c] = "User" -> user_registered(c)
              [] ctype[c] = "ProtoUser" -> user_proto(c, username, real_name)

(* -------------------------------- JOIN -------------------------------- *)
(* join_chan, one target. get_chan, is_joined, add_user, insert_name and   *)
(* add_channel each take and release their own lock.                       *)
join(c, name) ==
    /\ ctype[c] = "User"
    /\ Begin(c)
    /\ UNCHANGED <<namespace, ctype, proto, users, outbox>>
    /\ IF ~valid_channel(name)
       THEN /\ Finish(c, "NoSuchChannel")
            /\ UNCHANGED chans
       ELSE IF get_chan(namespace, name) # 0
       THEN /\ Continue(c, "join_is_joined", [NoCmd EXCEPT !.cmd = "JOIN", !.chan = name, !.obj = get_chan(namespace, name)])
            /\ UNCHANGED chans
       ELSE /\ chans' = Append(chans, NewChannel(name))
            /\ Continue(c, "join_insert", [NoCmd EXCEPT !.cmd = "JOIN", !.chan = name, !.obj = Len(chans) + 1])

JoinIsJoined(c) ==
    /\ pc[c] = "join_is_joined"
    /\ IF is_joined(chans[cur[c].obj], users[c].nick)
       THEN Finish(c, "Ok")
       ELSE Continue(c, "join_add", cur[c])
    /\ UNCHANGED <<namespace, ctype, proto, users, chans, outbox, ops, idvars, iovars>>

JoinAdd_as_op(c) ==
    /\ pc[c] = "join_add"
    /\ chans' = [chans EXCEPT ![cur[c].obj] = add_user(@, c, users[c].nick, "Op")]
    /\ Goto(c, "join_notify")
    /\ UNCHANGED <<namespace, ctype, proto, users, cur, ret, outbox, ops, idvars, iovars>>

JoinAdd(c) ==
    /\ pc[c] = "join_add"
    /\ chans' = [chans EXCEPT ![cur[c].obj] = add_user(@, c, users[c].nick, "None")]
    /\ Goto(c, "join_notify")
    /\ UNCHANGED <<namespace, ctype, proto, users, cur, ret, outbox, ops, idvars, iovars>>

JoinNotify(c) ==
    /\ pc[c] = "join_notify"
    /\ outbox' = [r \in Clients |->
                    IF r \in Recipients(chans[cur[c].obj])
                    THEN outbox[r] \cup {Line("JOIN", users[c].nick, cur[c].chan)}
                    ELSE outbox[r]]
    /\ Goto(c, "join_add_channel")
    /\ UNCHANGED <<namespace, ctype, proto, users, chans, cur, ret, ops, idvars, iovars>>

JoinInsert(c) ==
    /\ pc[c] = "join_insert"
    /\ IF insert_name_ok(namespace, cur[c].chan)
       THEN /\ namespace' = insert_name(namespace, cur[c].chan, ChanEntity(cur[c].obj))
            /\ Goto(c, "join_add_op")
            /\ UNCHANGED <<cur, ret>>
       ELSE /\ Finish(c, "NicknameInUse")
            /\ UNCHANGED namespace
    /\ UNCHANGED <<ctype, proto, users, chans, outbox, ops, idvars, iovars>>

JoinAddOp(c) ==
    /\ pc[c] = "join_add_op"
    /\ chans' = [chans EXCEPT ![cur[c].obj] = add_user(@, c, users[c].nick, "Op")]
    /\ Goto(c, "join_add_channel")
    /\ UNCHANGED <<namespace, ctype, proto, users, cur, ret, outbox, ops, idvars, iovars>>

JoinAddChannel(c) ==
    /\ pc[c] = "join_add_channel"
    /\ users' = [users EXCEPT ![c].channel_list = MapInsert(@, cur[c].chan, cur[c].obj)]
    /\ Finish(c, "EndofNames")
    /\ UNCHANGED <<namespace, ctype, proto, chans, outbox, ops, idvars, iovars>>

(* -------------------------------- PART -------------------------------- *)
(* send_err: the numeric is written to the sender's own connection.        *)
send_err(c, err, arg) == [outbox EXCEPT ![c] = @ \cup {Line(err, NoName, arg)}]

(* part(): no parameter is NeedMoreParams; otherwise the targets are       *)
(* parted one after the other, and the handler returns Ok after the last.  *)
part(c, targets) ==
    /\ ctype[c] = "User"
    /\ Begin(c)
    /\ IF targets = <<>>
       THEN Finish(c, "NeedMoreParams")
       ELSE Continue(c, "part_get_chan", [NoCmd EXCEPT !.cmd = "PART", !.targets = targets])
    /\ UNCHANGED <<namespace, ctype, proto, users, chans, outbox>>

(* the end of one round of the loop over the targets                       *)
part_next(c) ==
    IF Tail(cur[c].targets) = <<>>
    THEN Finish(c, "Ok")
    ELSE Continue(c, "part_get_chan", [NoCmd EXCEPT !.cmd = "PART", !.targets = Tail(cur[c].targets)])

(* part_chan: get_chan; a miss is NoSuchChannel, sent by part() as numeric *)
PartGetChan(c) ==
    /\ pc[c] = "part_get_chan"
    /\ LET target == Head(cur[c].targets)
       IN IF get_chan(namespace, target) = 0
          THEN /\ outbox' = send_err(c, "NoSuchChannel", target)
               /\ part_next(c)
          ELSE /\ Continue(c, "part_is_joined", [cur[c] EXCEPT !.chan = target, !.obj = get_chan(namespace, target)])
               /\ UNCHANGED outbox
    /\ UNCHANGED <<namespace, ctype, proto, users, chans, ops, idvars, iovars>>

PartIsJoined(c) ==
    /\ pc[c] = "part_is_joined"
    /\ IF ~is_joined(chans[cur[c].obj], users[c].nick)
       THEN /\ outbox' = send_err(c, "NotOnChannel", cur[c].chan)
            /\ part_next(c)
       ELSE /\ Goto(c, "part_unlink")
            /\ UNCHANGED <<cur, ret, outbox>>
    /\ UNCHANGED <<namespace, ctype, proto, users, chans, ops, idvars, iovars>>

(* rm_channel, get_user_key and rm_key. The channel_list is touched by no  *)
(* other client, and rm_key of the key get_user_key returned removes what  *)
(* is under the user's nick at that moment, so the three are one step.     *)
PartUnlink(c) ==
    /\ pc[c] = "part_unlink"
    /\ users' = [users EXCEPT ![c].channel_list = MapRemove(@, cur[c].chan)]
    /\ LET key == get_user_key(chans[cur[c].obj], users[c].nick)
       IN chans' = IF key # NoName THEN [chans EXCEPT ![cur[c].obj] = rm_key(@, key)] ELSE chans
    /\ Goto(c, "part_is_empty")
    /\ UNCHANGED <<namespace, ctype, proto, cur, ret, outbox, ops, idvars, iovars>>

PartIsEmpty(c) ==
    /\ pc[c] = "part_is_empty"
    /\ Goto(c, IF is_empty(chans[cur[c].obj]) THEN "part_remove_name" ELSE "part_notify")
    /\ UNCHANGED <<namespace, ctype, proto, users, chans, cur, ret, outbox, ops, idvars, iovars>>

(* remove_name(chanmask)?: a miss is NoSuchNick, sent by part() as numeric *)
PartRemoveName(c) ==
    /\ pc[c] = "part_remove_name"
    /\ namespace' = remove_name(namespace, cur[c].chan)
    /\ outbox' = IF contains_key(namespace, cur[c].chan) THEN outbox ELSE send_err(c, "NoSuchNick", cur[c].chan)
    /\ part_next(c)
    /\ UNCHANGED <<ctype, proto, users, chans, ops, idvars, iovars>>

PartNotify(c) ==
    /\ pc[c] = "part_notify"
    /\ outbox' = [r \in Clients |->
                    IF r \in Recipients(chans[cur[c].obj]) \ {c}
                    THEN outbox[r] \cup {Line("PART", users[c].nick, cur[c].chan)}
                    ELSE outbox[r]]
    /\ part_next(c)
    /\ UNCHANGED <<namespace, ctype, proto, users, chans, ops, idvars, iovars>>

(* -------------------------------- TOPIC ------------------------------- *)
(* topic(): nparams is the number of parameters; the first is the channel, *)
(* the second the new topic. The first lock region is get_chan.            *)
topic(c, chanmask, nparams, text) ==
    /\ ctype[c] = "User"
    /\ Begin(c)
    /\ IF nparams = 0
       THEN Finish(c, "NeedMoreParams")
       ELSE IF get_chan(namespace, chanmask) = 0
       THEN Finish(c, "NoSuchChannel")
       ELSE Continue(c, "topic_is_joined",
                     [NoCmd EXCEPT !.cmd = "TOPIC", !.chan = chanmask, !.obj = get_chan(namespace, chanmask),
                                   !.nparams = nparams, !.text = text])
    /\ UNCHANGED <<namespace, ctype, proto, users, chans, outbox>>

TopicIsJoined(c) ==
    /\ pc[c] = "topic_is_joined"
    /\ IF ~is_joined(chans[cur[c].obj], users[c].nick)
       THEN Finish(c, "NotOnChannel")
       ELSE /\ Goto(c, IF cur[c].nparams = 1 THEN "topic_get" ELSE "topic_is_op")
            /\ UNCHANGED <<cur, ret>>
    /\ UNCHANGED <<namespace, ctype, proto, users, chans, outbox, ops, idvars, iovars>>

(* the query: Ok(Topic(chanmask, chan.get_topic()))                        *)
TopicGet(c) ==
    /\ pc[c] = "topic_get"
    /\ Finish(c, "Topic")
    /\ UNCHANGED <<namespace, ctype, proto, users, chans, outbox, ops, idvars, iovars>>

TopicIsOp(c) ==
    /\ pc[c] = "topic_is_op"
    /\ IF is_op(chans[cur[c].obj], users[c].nick)
       THEN /\ Goto(c, "topic_set")
            /\ UNCHANGED <<cur, ret>>
       ELSE Finish(c, "ChanOPrivsNeeded")
    /\ UNCHANGED <<namespace, ctype, proto, users, chans, outbox, ops, idvars, iovars>>

TopicSet(c) ==
    /\ pc[c] = "topic_set"
    /\ chans' = [chans EXCEPT ![cur[c].obj] = set_topic(@, cur[c].text)]
    /\ Finish(c, "Ok")
    /\ UNCHANGED <<namespace, ctype, proto, users, outbox, ops, idvars, iovars>>

(* --------------------------- PRIVMSG / NOTICE ------------------------- *)
(* msg(): nparams is the number of parameters, the first the target list,  *)
(* the rest the text.                                                      *)
msg(c, notice, nparams, targets) ==
    /\ ctype[c] = "User"
    /\ Begin(c)
    /\ IF nparams = 0
       THEN Finish(c, IF notice THEN "Ok" ELSE "NoRecipient")
       ELSE IF nparams = 1
       THEN Finish(c, IF notice THEN "Ok" ELSE "NoTextToSend")
       ELSE Continue(c, "msg_get_name",
                     [NoCmd EXCEPT !.cmd = IF notice THEN "NOTICE" ELSE "PRIVMSG",
                                   !.notice = notice, !.targets = targets])
    /\ UNCHANGED <<namespace, ctype, proto, users, chans, outbox>>

(* the end of one round of the loop over the targets: the locals of the    *)
(* round are dropped                                                       *)
msg_next(c) ==
    IF Tail(cur[c].targets) = <<>>
    THEN Finish(c, "Ok")
    ELSE Continue(c, "msg_get_name",
                  [NoCmd EXCEPT !.cmd = cur[c].cmd, !.notice = cur[c].notice, !.targets = Tail(cur[c].targets)])

MsgGetName_reports(c) ==
    /\ pc[c] = "msg_get_name"
    /\ LET target == Head(cur[c].targets)
           e == get_name(namespace, target)
       IN CASE e.kind = "None" ->
                 /\ outbox' = send_err(c, "NoSuchNick", target)
                 /\ msg_next(c)
            [] e.kind = "User" ->
                 /\ IF UserLive(e.ref)
                    THEN Continue(c, "msg_fetch_client", [cur[c] EXCEPT !.nick = target, !.user = e.ref])
                    ELSE Continue(c, "msg_cleanup", [cur[c] EXCEPT !.nick = target])
                 /\ UNCHANGED outbox
            [] e.kind = "Chan" ->
                 /\ Continue(c, "msg_chan", [cur[c] EXCEPT !.chan = target, !.obj = e.ref])
                 /\ UNCHANGED outbox
    /\ UNCHANGED <<namespace, ctype, proto, users, chans, ops, idvars, iovars>>

(* get_name of the next target and, for a user, User::upgrade. A miss is   *)
(* NoSuchNick, which is sent to the sender unless the command is NOTICE.   *)
MsgGetName(c) ==
    /\ pc[c] = "msg_get_name"
    /\ LET target == Head(cur[c].targets)
           e == get_name(namespace, target)
       IN CASE e.kind = "None" ->
                 /\ outbox' = IF cur[c].notice THEN outbox ELSE send_err(c, "NoSuchNick", target)
                 /\ msg_next(c)
            [] e.kind = "User" ->
                 /\ IF UserLive(e.ref)
                    THEN Continue(c, "msg_fetch_client", [cur[c] EXCEPT !.nick = target, !.user = e.ref])
                    ELSE Continue(c, "msg_cleanup", [cur[c] EXCEPT !.nick = target])
                 /\ UNCHANGED outbox
            [] e.kind = "Chan" ->
                 /\ Continue(c, "msg_chan", [cur[c] EXCEPT !.chan = target, !.obj = e.ref])
                 /\ UNCHANGED outbox
    /\ UNCHANGED <<namespace, ctype, proto, users, chans, ops, idvars, iovars>>

(* recv_u.send_msg: fetch_client upgrades the Weak<Client> of the target.  *)
(* With the client alive the line is written; with the client gone the     *)
(* user unlinks itself (clear_chans_and_exit).                             *)
MsgFetchClient(c) ==
    /\ pc[c] = "msg_fetch_client"
    /\ IF ctype[cur[c].user] = "User"
       THEN /\ outbox' = [outbox EXCEPT ![cur[c].user] = @ \cup {Line(cur[c].cmd, users[c].nick, cur[c].nick)}]
            /\ msg_next(c)
       ELSE /\ Goto(c, "msg_clear_chans")
            /\ UNCHANGED <<cur, ret, outbox>>
    /\ UNCHANGED <<namespace, ctype, proto, users, chans, ops, idvars, iovars>>

(* clear_chans_and_exit of the target, run by the sender's handler: one    *)
(* channel of the drained channel_list per step (_rm_chan_inside_lock); a  *)
(* channel that still has members is kept as a witness.                    *)
MsgClearChan(c) ==
    /\ pc[c] = "msg_clear_chans"
    /\ \E chan_name \in DOMAIN users[cur[c].user].channel_list :
         LET t == cur[c].user
             id == users[t].channel_list[chan_name]
             key == get_user_key(chans[id], users[t].nick)
         IN /\ users' = [users EXCEPT ![t].channel_list = MapRemove(@, chan_name)]
            /\ IF ChanAlive(id) /\ key # NoName
               THEN /\ chans' = [chans EXCEPT ![id] = rm_key(@, key)]
                    /\ IF is_empty(rm_key(chans[id], key))
                       THEN /\ pc' = [pc EXCEPT ![c] = "msg_clear_rm"]
                            /\ cur' = [cur EXCEPT ![c].chan = chan_name, ![c].obj = id]
                       ELSE /\ cur' = [cur EXCEPT ![c].held = @ \cup {id}]
                            /\ UNCHANGED pc
               ELSE /\ cur' = [cur EXCEPT ![c].held = @ \cup (IF ChanAlive(id) /\ ~is_empty(chans[id]) THEN {id} ELSE {})]
                    /\ UNCHANGED <<chans, pc>>
    /\ UNCHANGED <<namespace, ctype, proto, ret, outbox, ops, idvars, iovars>>

MsgClearRemoveChan(c) ==
    /\ pc[c] = "msg_clear_rm"
    /\ namespace' = remove_name(namespace, cur[c].chan)
    /\ cur' = [cur EXCEPT ![c].chan = NoName, ![c].obj = 0]
    /\ Goto(c, "msg_clear_chans")
    /\ UNCHANGED <<ctype, proto, users, chans, ret, outbox, ops, idvars, iovars>>

(* The DeadClient error is logged and dropped, and with it the Arc<User>   *)
(* the handler held; if that was the last one, Drop for User runs on an    *)
(* empty channel_list and removes the nick.                                *)
MsgDropUser(c) ==
    /\ pc[c] = "msg_clear_chans"
    /\ DOMAIN users[cur[c].user].channel_list = {}
    /\ IF ctype[cur[c].user] # "User" /\ ~\E h \in Clients \ {c} : cur[h].user = cur[c].user
       THEN /\ namespace' = remove_name(namespace, users[cur[c].user].nick)
            /\ users' = [users EXCEPT ![cur[c].user] = NoUser]
       ELSE UNCHANGED <<namespace, users>>
    /\ msg_next(c)
    /\ UNCHANGED <<ctype, proto, chans, outbox, ops, idvars, iovars>>

(* User::cleanup for a target whose Weak<User> did not upgrade:            *)
(* remove_name(nick), then search_user_chans_purge(nick).                  *)
MsgCleanup(c) ==
    /\ pc[c] = "msg_cleanup"
    /\ namespace' = remove_name(namespace, cur[c].nick)
    /\ Goto(c, "msg_purge_collect")
    /\ UNCHANGED <<ctype, proto, users, chans, cur, ret, outbox, ops, idvars, iovars>>

(* _search_user_chans: the channels of the namespace are cloned under the  *)
(* namespace lock, then visited one by one.                                *)
MsgPurgeCollect(c) ==
    /\ pc[c] = "msg_purge_collect"
    /\ LET found == {namespace[k].ref : k \in {x \in DOMAIN namespace : namespace[x].kind = "Chan"}}
       IN IF found = {}
          THEN msg_next(c)
          ELSE Continue(c, "msg_purge", [cur[c] EXCEPT !.held = found])
    /\ UNCHANGED <<namespace, ctype, proto, users, chans, outbox, ops, idvars, iovars>>

MsgPurgeIsEmpty(c) ==
    /\ pc[c] = "msg_purge"
    /\ \E id \in cur[c].held :
          Continue(c, IF is_empty(chans[id]) THEN "msg_purge_rm_name" ELSE "msg_purge_key",
                   [cur[c] EXCEPT !.obj = id])
    /\ UNCHANGED <<namespace, ctype, proto, users, chans, outbox, ops, idvars, iovars>>

MsgPurgeRemoveName(c) ==
    /\ pc[c] = "msg_purge_rm_name"
    /\ namespace' = remove_name(namespace, chans[cur[c].obj].name)
    /\ Goto(c, "msg_purge_key")
    /\ UNCHANGED <<ctype, proto, users, chans, cur, ret, outbox, ops, idvars, iovars>>

(* get_user_key(nick) and rm_key; after the last channel cleanup returns   *)
(* and the DeadUser error is logged.                                       *)
MsgPurgeKey(c) ==
    /\ pc[c] = "msg_purge_key"
    /\ LET key == get_user_key(chans[cur[c].obj], cur[c].nick)
       IN chans' = IF key # NoName THEN [chans EXCEPT ![cur[c].obj] = rm_key(@, key)] ELSE chans
    /\ IF cur[c].held \ {cur[c].obj} = {}
       THEN msg_next(c)
       ELSE Continue(c, "msg_purge", [cur[c] EXCEPT !.held = @ \ {cur[c].obj}, !.obj = 0])
    /\ UNCHANGED <<namespace, ctype, proto, users, outbox, ops, idvars, iovars>>

(* chan.send_msg: the fan-out to the members of the channel, the sender    *)
(* left out.                                                               *)
MsgChan(c) ==
    /\ pc[c] = "msg_chan"
    /\ outbox' = [r \in Clients |->
                    IF r \in Recipients(chans[cur[c].obj]) \ {c} /\ ctype[r] = "User"
                    THEN outbox[r] \cup {Line(cur[c].cmd, users[c].nick, cur[c].chan)}
                    ELSE outbox[r]]
    /\ msg_next(c)
    /\ UNCHANGED <<namespace, ctype, proto, users, chans, ops, idvars, iovars>>

(* ------------------------------ teardown ------------------------------ *)
(* The connection closes: the Client and with it the last Arc<User> go,    *)
(* and Drop for User runs: the channel_list is drained, one channel per    *)
(* step, and the nick is removed last. When a handler of another client    *)
(* holds an Arc of the User, the drop waits for that handler.              *)
Disconnect(c) ==
    /\ pc[c] = "idle"
    /\ ctype[c] \in {"Unregistered", "ProtoUser", "User"}
    /\ ops > 0
    /\ ops' = ops - 1
    /\ UNCHANGED <<idvars, iovars>>
    /\ ctype' = [ctype EXCEPT ![c] = "Dead"]
    /\ proto' = [proto EXCEPT ![c] = NoProto]
    /\ Goto(c, IF ctype[c] = "User" /\ ~\E h \in Clients : cur[h].user = c
                THEN "drop_chans" ELSE "idle")
    /\ UNCHANGED <<namespace, users, chans, cur, ret, outbox>>

DropChan(c) ==
    /\ pc[c] = "drop_chans"
    /\ \E chan_name \in DOMAIN users[c].channel_list :
         LET id == users[c].channel_list[chan_name]
             key == get_user_key(chans[id], users[c].nick)
         IN /\ users' = [users EXCEPT ![c].channel_list = MapRemove(@, chan_name)]
            /\ IF ChanAlive(id) /\ key # NoName
               THEN /\ chans' = [chans EXCEPT ![id] = rm_key(@, key)]
                    /\ IF is_empty(rm_key(chans[id], key))
                       THEN /\ pc' = [pc EXCEPT ![c] = "drop_rm_chan"]
                            /\ cur' = [cur EXCEPT ![c] = [NoCmd EXCEPT !.chan = chan_name, !.obj = id]]
                       ELSE UNCHANGED <<pc, cur>>
               ELSE UNCHANGED <<chans, pc, cur>>
    /\ UNCHANGED <<namespace, ctype, proto, ret, outbox, ops, idvars, iovars>>

DropRemoveChan(c) ==
    /\ pc[c] = "drop_rm_chan"
    /\ namespace' = remove_name(namespace, cur[c].chan)
    /\ cur' = [cur EXCEPT ![c] = NoCmd]
    /\ Goto(c, "drop_chans")
    /\ UNCHANGED <<ctype, proto, users, chans, ret, outbox, ops, idvars, iovars>>

DropUser(c) ==
    /\ pc[c] = "drop_chans"
    /\ DOMAIN users[c].channel_list = {}
    /\ namespace' = remove_name(namespace, users[c].nick)
    /\ users' = [users EXCEPT ![c] = NoUser]
    /\ Goto(c, "idle")
    /\ UNCHANGED <<ctype, proto, chans, cur, ret, outbox, ops, idvars, iovars>>

(* -------------------------------- locks ------------------------------- *)
(* The user whose channel_list lock the handler of c holds where it        *)
(* stands, 0 for none: the guard that `for .. in                           *)
(* self.channel_list.lock().unwrap().drain()` creates lives until the loop *)
(* ends, so the body of the loop runs under it.                            *)
channel_list_held(c) ==
    CASE pc[c] = "drop_rm_chan" -> c
      [] pc[c] = "msg_clear_rm" -> cur[c].user
      [] OTHER -> 0

(* The next step of the handler of c locks the namespace map.              *)
namespace_requested(c) ==
    pc[c] \in {"reg_drop", "nick_change", "nick_register", "join_insert", "part_get_chan",
               "part_remove_name", "msg_get_name", "msg_clear_rm", "msg_cleanup",
               "msg_purge_collect", "msg_purge_rm_name", "drop_rm_chan"}

(* ------------------------------ assign_id ----------------------------- *)
(* A connection task enters assign_id.                                     *)
AssignIdCall(c) ==
    /\ id_calls[c].st = "idle"
    /\ id_counter < MaxIds
    /\ id_calls' = [id_calls EXCEPT ![c] = [st |-> "called", before |-> Len(id_log), val |-> 0]]
    /\ UNCHANGED <<namespace, ctype, proto, users, chans, pc, cur, ret, outbox, ops, id_counter, id_log, iovars>>

assign_id_reads_first(c) ==
    /\ id_calls[c].st = "called"
    /\ id_counter < MaxIds
    /\ id_counter' = id_counter + 1
    /\ id_calls' = [id_calls EXCEPT ![c].st = "read", ![c].val = id_counter]
    /\ UNCHANGED <<namespace, ctype, proto, users, chans, pc, cur, ret, outbox, ops, id_log, iovars>>

(* The body, under the id_counter lock: increment, then read. The counter  *)
(* is a u64; the bound MaxIds keeps it far from 2^64.                      *)
assign_id(c) ==
    /\ id_calls[c].st = "called"
    /\ id_counter < MaxIds
    /\ id_counter' = id_counter + 1
    /\ id_calls' = [id_calls EXCEPT ![c].st = "read", ![c].val = id_counter + 1]
    /\ UNCHANGED <<namespace, ctype, proto, users, chans, pc, cur, ret, outbox, ops, id_log, iovars>>

(* The guard is gone and the value reaches the caller.                     *)
AssignIdReturn(c) ==
    /\ id_calls[c].st = "read"
    /\ id_log' = Append(id_log, id_calls[c].val)
    /\ id_calls' = [id_calls EXCEPT ![c] = NoCall]
    /\ UNCHANGED <<namespace, ctype, proto, users, chans, pc, cur, ret, outbox, ops, id_counter, iovars>>

(* ------------------------------- parser ------------------------------- *)
SP == 32
COLON == 58

MAX_MSG_PARAMS == 15

(* str::find: the offset of the first occurrence of pat in str, -1 for None *)
find(str, pat) ==
    LET hits == {i \in 0..(Len(str) - Len(pat)) : SubSeq(str, i + 1, i + Len(pat)) = pat}
    IN IF hits = {} THEN -1 ELSE CHOOSE i \in hits : \A j \in hits : i <= j

(* str::splitn(n, sep): at most n pieces, the last one the remainder       *)
RECURSIVE splitn(_, _, _)
splitn(str, n, sep) ==
    IF n = 0 THEN <<>>
    ELSE IF n = 1 \/ find(str, <<sep>>) = -1 THEN <<str>>
    ELSE <<SubSeq(str, 1, find(str, <<sep>>))>>
         \o splitn(SubSeq(str, find(str, <<sep>>) + 2, Len(str)), n - 1, sep)

(* str::split(sep): every piece                                            *)
split(str, sep) == splitn(str, Len(str) + 1, sep)

is_valid_command(command) ==
    \/ Len(command) >= 1 /\ \A i \in 1..Len(command) : IsLetter(command[i])
    \/ Len(command) = 3 /\ \A i \in 1..3 : IsDigit(command[i])

(* (prefix, body); `some` says whether the Option is Some                  *)
get_prefix(input) ==
    IF SubSeq(input, 1, 1) = <<COLON>>
    THEN LET substrings == splitn(SubSeq(input, 2, Len(input)), 2, SP)
         IN [prefix |-> [some |-> TRUE, str |-> substrings[1]],
             body |-> IF Len(substrings) = 2 THEN [some |-> TRUE, str |-> substrings[2]]
                      ELSE [some |-> FALSE, str |-> <<>>]]
    ELSE [prefix |-> [some |-> FALSE, str |-> <<>>], body |-> [some |-> TRUE, str |-> input]]

(* the prefix without '@': a name that is a valid nick (and a valid short  *)
(* host name) is Name; the other forms of a prefix are not drawn           *)
parse_prefix(input) ==
    IF valid_nick(input) THEN [ok |-> TRUE, err |-> "", kind |-> "Name", name |-> input]
    ELSE [ok |-> FALSE, err |-> "InvalidHost", kind |-> "", name |-> <<>>]

split_colon_arg(input) ==
    IF find(input, <<SP, COLON>>) # -1
    THEN [middle |-> SubSeq(input, 1, find(input, <<SP, COLON>>)),
          trail |-> [some |-> TRUE, str |-> SubSeq(input, find(input, <<SP, COLON>>) + 3, Len(input))]]
    ELSE [middle |-> input, trail |-> [some |-> FALSE, str |-> <<>>]]

(* What a read of param_slices can give on the path that never assigns it: *)
(* nothing, the split the comment promises, or every token.                *)
Unassigned(param_substring) ==
    {<<>>, splitn(param_substring, MAX_MSG_PARAMS, SP), split(param_substring, SP)}

param_slices_14(param_substring) ==
    LET sc == split_colon_arg(param_substring)
    IN IF sc.trail.some
       THEN IF Len(split(sc.middle, SP)) < MAX_MSG_PARAMS - 1
            THEN {splitn(sc.middle, MAX_MSG_PARAMS - 1, SP) \o <<sc.trail.str>>}
            ELSE Unassigned(param_substring)
       ELSE {splitn(param_substring, MAX_MSG_PARAMS, SP)}

(* the match on opt_trail: the values param_slices can have after it       *)
param_slices(param_substring) ==
    LET sc == split_colon_arg(param_substring)
    IN IF sc.trail.some
       THEN IF Len(split(sc.middle, SP)) < MAX_MSG_PARAMS
            THEN {splitn(sc.middle, MAX_MSG_PARAMS - 1, SP) \o <<sc.trail.str>>}
            ELSE Unassigned(param_substring)
       ELSE {splitn(param_substring, MAX_MSG_PARAMS, SP)}

ParseErr(e) == [done |-> TRUE, ok |-> FALSE, err |-> e, prefix |-> <<>>, command |-> <<>>,
                has_params |-> FALSE, params |-> <<>>]

ParseOk(prefix, command, has_params, params) ==
    [done |-> TRUE, ok |-> TRUE, err |-> "", prefix |-> prefix, command |-> command,
     has_params |-> has_params, params |-> params]

(* the results parse_message can return for input                            *)
parse_message(input) ==
    LET gp == get_prefix(input)
        body == gp.body.str
        pp == parse_prefix(gp.prefix.str)
        opt_prefix == IF gp.prefix.some THEN pp.name ELSE <<>>
        cmd_end == find(body, <<SP>>)
    IN IF ~gp.body.some THEN {ParseErr("NoCommand")}
       ELSE IF gp.prefix.some /\ ~pp.ok THEN {ParseErr(pp.err)}
       ELSE IF cmd_end = -1
       THEN IF ~is_valid_command(body) THEN {ParseErr("InvalidCommand")}
            ELSE {ParseOk(opt_prefix, body, FALSE, <<>>)}
       ELSE IF ~is_valid_command(SubSeq(body, 1, cmd_end)) THEN {ParseErr("InvalidCommand")}
       ELSE {ParseOk(opt_prefix, SubSeq(body, 1, cmd_end), TRUE, ps) :
                ps \in param_slices(SubSeq(body, cmd_end + 2, Len(body)))}

(* The frames given to the parser: an optional prefix, a command, n middle *)
(* parameters "b", "c", ... and an optional SP ':' with a trailing text.   *)
RECURSIVE Join(_)
Join(tokens) ==
    IF tokens = <<>> THEN <<>>
    ELSE IF Len(tokens) = 1 THEN tokens[1]
    ELSE tokens[1] \o <<SP>> \o Join(Tail(tokens))

Middles(n) == [i \in 1..n |-> <<97 + i>>]

NoTrail == <<0>>

TrailTexts == {<<120>>, <<120, SP, 121>>, <<COLON, 120>>, <<120, SP, COLON, 121>>}

Prefixes == {<<>>, <<COLON, 97, SP>>}

Commands == {<<67>>, <<67, 49>>}

Msg(pfx, command, n, trail) ==
    pfx \o command
        \o (IF n = 0 THEN <<>> ELSE <<SP>> \o Join(Middles(n)))
        \o (IF trail = NoTrail THEN <<>> ELSE <<SP, COLON>> \o trail)

Messages ==
    {Msg(pfx, cmd, n, t) : pfx \in Prefixes, cmd \in Commands, n \in 0..MaxMiddles, t \in TrailTexts \cup {NoTrail}}
    \cup {<<COLON, 97>>, <<COLON, 49, SP, 67>>}

ParseMessage ==
    /\ ~parsed.done
    /\ parsed' \in parse_message(message)
    /\ UNCHANGED <<corevars, idvars, bufvars, message, rpl>>

(* ------------------------------ send_rpl ------------------------------ *)
MAX_MSG_SIZE == 512

(* every nick of a reply is NickLen bytes long; nicks are told apart by    *)
(* their number                                                            *)
NickLen == 9

(* the length of the nicks joined by single spaces                         *)
JoinedLen(nick_vec) == IF nick_vec = <<>> THEN 0 ELSE Len(nick_vec) * NickLen + (Len(nick_vec) - 1)

(* format!(":{} {}", host, reply).len() for a NameReply, "353 = <chan>     *)
(* :<nick list>", with host and chan given by their lengths                *)
NameReplyLen(host, chan, nick_vec) == 1 + host + 1 + 6 + chan + 2 + JoinedLen(nick_vec)

(* a usize: val when it did not wrap, 2^w + val (val < 0) when it did      *)
Usize(val) == [wrapped |-> val < 0, val |-> val]

(* sum >= overhead in usize: sum is a few hundred, far below 2^w + val     *)
UsizeGe(sum, overhead) == ~overhead.wrapped /\ sum >= overhead.val

RplHosts == {1, 3, 15}
RplChans == {2, 4}
RplReplies ==
    {[kind |-> "NameReply", len |-> 0, nick_vec |-> [k \in 1..n |-> k]] : n \in {0, 1, 60}}
    \cup {[kind |-> "Topic", len |-> l, nick_vec |-> <<>>] : l \in {20, 600}}

RplStart(host, chan, reply) ==
    [pc |-> "start", kind |-> reply.kind, host |-> host, chan |-> chan,
     len |-> IF reply.kind = "NameReply" THEN NameReplyLen(host, chan, reply.nick_vec) ELSE 1 + host + 1 + reply.len,
     orig |-> reply.nick_vec, nick_vec |-> reply.nick_vec,
     overhead |-> Usize(0), i |-> 0, sum |-> 0, vec_len |-> 0,
     sent |-> <<>>, tick |-> 0, alive |-> TRUE, ret |-> "none"]

(* the lines written so far; only the first MaxLines are kept              *)
Sent(line) == IF Len(rpl.sent) < MaxLines THEN Append(rpl.sent, line) ELSE rpl.sent

(* the peer closes the connection: the Weak<Client> no longer upgrades     *)
RplClientGone ==
    /\ rpl.pc \in {"start", "loop"}
    /\ rpl.alive
    /\ rpl' = [rpl EXCEPT !.alive = FALSE]
    /\ UNCHANGED <<corevars, idvars, bufvars, parsevars>>

(* The test of the line length. A line that fits is sent; an oversize      *)
(* reply other than NameReply is dropped; for a NameReply the capacity     *)
(* MAX_MSG_PARAMS - (10 + chan.len() + host.len()) is computed in usize: a *)
(* negative difference panics in a build with overflow checks and wraps in *)
(* one without.                                                            *)
RplBegin ==
    /\ rpl.pc = "start"
    /\ IF rpl.len > MAX_MSG_SIZE - 2
       THEN IF rpl.kind = "NameReply"
            THEN LET diff == MAX_MSG_PARAMS - (10 + rpl.chan + rpl.host)
                 IN \/ /\ diff < 0
                       /\ rpl' = [rpl EXCEPT !.pc = "panic"]
                    \/ rpl' = [rpl EXCEPT !.pc = "loop", !.overhead = Usize(diff),
                                          !.vec_len = Len(rpl.nick_vec)]
            ELSE rpl' = [rpl EXCEPT !.pc = "done", !.ret = "Ok"]
       ELSE IF rpl.alive
            THEN rpl' = [rpl EXCEPT !.pc = "done", !.ret = "Ok", !.sent = Sent(rpl.nick_vec)]
            ELSE rpl' = [rpl EXCEPT !.pc = "done", !.ret = "DeadClient"]
    /\ UNCHANGED <<corevars, idvars, bufvars, parsevars>>

(* One test of the while condition and one pass through the body. The body *)
(* changes i and sum only when it sends a line, and then sets them to 0.   *)
(* tick tells one pass from the next.                                      *)
RplLoop ==
    /\ rpl.pc = "loop"
    /\ IF rpl.i < rpl.vec_len
       THEN IF UsizeGe(rpl.sum + NickLen, rpl.overhead)
            THEN IF rpl.alive
                 THEN rpl' = [rpl EXCEPT !.sent = Sent(SubSeq(rpl.nick_vec, 1, rpl.i)),
                                        !.nick_vec = SubSeq(rpl.nick_vec, rpl.i + 1, Len(rpl.nick_vec)),
                                        !.i = 0, !.sum = 0,
                                        !.vec_len = Len(rpl.nick_vec) - rpl.i,
                                        !.tick = 1 - rpl.tick]
                 ELSE rpl' = [rpl EXCEPT !.pc = "done", !.ret = "DeadClient",
                                        !.nick_vec = SubSeq(rpl.nick_vec, 1, rpl.i)]
            ELSE rpl' = [rpl EXCEPT !.tick = 1 - rpl.tick]
       ELSE rpl' = [rpl EXCEPT !.pc = "done", !.ret = "Ok"]
    /\ UNCHANGED <<corevars, idvars, bufvars, parsevars>>

(* ------------------------- reading a connection ----------------------- *)
Fill(n) == [i \in 1..n |-> 97]

(* the strings handed to append: "a", CR, LF, CR LF "b", the two bytes of  *)
(* U+00E9, and payloads around the capacity                                *)
Chunks == {<<97>>, <<CR>>, <<LF>>, <<CR, LF, 98>>, <<195, 169>>,
           Fill(MESSAGE_SIZE - 2), Fill(MESSAGE_SIZE), Fill(MESSAGE_SIZE + 1)}

BufAppend(message_string) ==
    /\ ops > 0
    /\ ops' = ops - 1
    /\ LET r == append(buffer, index, message_string)
       IN /\ buffer' = r.buffer
          /\ index' = r.index
          /\ buf_ret' = [op |-> "append", ok |-> r.ok, out |-> message_string]
    /\ UNCHANGED <<namespace, ctype, proto, users, chans, pc, cur, ret, outbox>>
    /\ UNCHANGED <<idvars, stream, pending, frames, reading, parsevars, rpl>>

BufExtract ==
    /\ ops > 0
    /\ ops' = ops - 1
    /\ LET r == extract(buffer, index)
       IN /\ buffer' = r.buffer
          /\ index' = r.index
          /\ buf_ret' = [op |-> "extract", ok |-> r.some, out |-> r.out]
    /\ UNCHANGED <<namespace, ctype, proto, users, chans, pc, cur, ret, outbox>>
    /\ UNCHANGED <<idvars, stream, pending, frames, reading, parsevars, rpl>>

(* The reader of a connection: it appends what the socket delivered, any   *)
(* number of bytes of what is pending, and then drains the buffer with     *)
(* extract until extract returns None. An Overflow closes the connection.  *)
SockRead(n) ==
    /\ reading = "read"
    /\ n \in 1..Len(pending)
    /\ LET r == append(buffer, index, SubSeq(pending, 1, n))
       IN /\ buffer' = r.buffer
          /\ index' = r.index
          /\ buf_ret' = [op |-> "append", ok |-> r.ok, out |-> SubSeq(pending, 1, n)]
          /\ reading' = IF r.ok THEN "drain" ELSE "closed"
    /\ pending' = SubSeq(pending, n + 1, Len(pending))
    /\ UNCHANGED <<corevars, idvars, stream, frames, parsevars, rpl>>

Drain ==
    /\ reading = "drain"
    /\ LET r == extract(buffer, index)
       IN /\ buffer' = r.buffer
          /\ index' = r.index
          /\ buf_ret' = [op |-> "extract", ok |-> r.some, out |-> r.out]
          /\ frames' = IF r.some THEN Append(frames, r.out) ELSE frames
          /\ reading' = IF r.some THEN "drain" ELSE "read"
    /\ UNCHANGED <<corevars, idvars, stream, pending, parsevars, rpl>>

(* --------------------------- specifications --------------------------- *)
(* Spec: the registration handshake from server start.                     *)
Next ==
    \/ \E c \in Clients, n \in Nicks : nick(c, n)
    \/ \E c \in Clients : NickRegister(c)
    \/ \E c \in Clients : try_nick_change(c)
    \/ \E c \in Clients, a \in UserArgs, k \in ParamCounts : user(c, a[1], a[2], k)
    \/ \E c \in Clients : RegisterDrop(c)
    \/ \E c \in Clients : Disconnect(c)
    \/ \E c \in Clients : DropUser(c)

Spec == Init /\ [][Next]_vars

(* SpecChan: channel traffic, from the state in which client 1 holds nick  *)
(* a and every other client has sent NICK a before client 1 registered and *)
(* has not sent USER yet. No client is in ProtoUser without a pending      *)
(* nick, so NickRegister has no step here.                                 *)
InitChan ==
    /\ IdsAssigned
    /\ IoIdle
    /\ namespace = (nick_a :> UserEntity(1))
    /\ ctype = [c \in Clients |-> IF c = 1 THEN "User" ELSE "ProtoUser"]
    /\ proto = [c \in Clients |-> IF c = 1 THEN NoProto ELSE [NoProto EXCEPT !.nick = nick_a]]
    /\ users = [c \in Clients |->
                  IF c = 1 THEN [NoUser EXCEPT !.nick = nick_a, !.username = "u1", !.real_name = "r1"]
                  ELSE NoUser]
    /\ chans = <<>>
    /\ pc = [c \in Clients |-> "idle"]
    /\ cur = [c \in Clients |-> NoCmd]
    /\ ret = Ret(0, "none")
    /\ outbox = [c \in Clients |-> {}]
    /\ ops = MaxChanOps

NextChan ==
    \/ \E c \in Clients, n \in ChanNicks : nick(c, n)
    \/ \E c \in Clients : try_nick_change(c)
    \/ \E c \in Clients, a \in UserArgs : user(c, a[1], a[2], 4)
    \/ \E c \in Clients : RegisterDrop(c)
    \/ \E c \in Clients, name \in ChanNames : join(c, name)
    \/ \E c \in Clients : JoinIsJoined(c)
    \/ \E c \in Clients : JoinAdd(c)
    \/ \E c \in Clients : JoinNotify(c)
    \/ \E c \in Clients : JoinInsert(c)
    \/ \E c \in Clients : JoinAddOp(c)
    \/ \E c \in Clients : JoinAddChannel(c)
    \/ \E c \in Clients : Disconnect(c)
    \/ \E c \in Clients : DropChan(c)
    \/ \E c \in Clients : DropRemoveChan(c)
    \/ \E c \in Clients : DropUser(c)

SpecChan == InitChan /\ [][NextChan]_vars

(* SpecMember: JOIN, PART and teardown around an existing channel, from    *)
(* the state of InitChan after client 1 has created #x: client 1 is its    *)
(* only member and its operator.                                           *)
InitMember ==
    /\ IdsAssigned
    /\ IoIdle
    /\ namespace = (nick_a :> UserEntity(1)) @@ (chan_x :> ChanEntity(1))
    /\ ctype = [c \in Clients |-> IF c = 1 THEN "User" ELSE "ProtoUser"]
    /\ proto = [c \in Clients |-> IF c = 1 THEN NoProto ELSE [NoProto EXCEPT !.nick = nick_a]]
    /\ users = [c \in Clients |->
                  IF c = 1 THEN [NoUser EXCEPT !.nick = nick_a, !.username = "u1", !.real_name = "r1",
                                               !.channel_list = (chan_x :> 1)]
                  ELSE NoUser]
    /\ chans = <<add_user(NewChannel(chan_x), 1, nick_a, "Op")>>
    /\ pc = [c \in Clients |-> "idle"]
    /\ cur = [c \in Clients |-> NoCmd]
    /\ ret = Ret(0, "none")
    /\ outbox = [c \in Clients |-> {}]
    /\ ops = MaxMemberOps

NextMember ==
    \/ \E c \in Clients : nick(c, nick_b)
    \/ \E c \in Clients : try_nick_change(c)
    \/ \E c \in Clients : user(c, "u2", "r2", 4)
    \/ \E c \in Clients : RegisterDrop(c)
    \/ \E c \in Clients : join(c, chan_x)
    \/ \E c \in Clients : JoinIsJoined(c)
    \/ \E c \in Clients : JoinAdd(c)
    \/ \E c \in Clients : JoinNotify(c)
    \/ \E c \in Clients : JoinInsert(c)
    \/ \E c \in Clients : JoinAddOp(c)
    \/ \E c \in Clients : JoinAddChannel(c)
    \/ \E c \in Clients, t \in PartTargets : part(c, t)
    \/ \E c \in Clients : PartGetChan(c)
    \/ \E c \in Clients : PartIsJoined(c)
    \/ \E c \in Clients : PartUnlink(c)
    \/ \E c \in Clients : PartIsEmpty(c)
    \/ \E c \in Clients : PartRemoveName(c)
    \/ \E c \in Clients : PartNotify(c)
    \/ \E c \in Clients : Disconnect(c)
    \/ \E c \in Clients : DropChan(c)
    \/ \E c \in Clients : DropRemoveChan(c)
    \/ \E c \in Clients : DropUser(c)

SpecMember == InitMember /\ [][NextMember]_vars

(* SpecTalk: TOPIC, PRIVMSG and NOTICE, from the state of InitMember.      *)
InitTalk ==
    /\ IdsAssigned
    /\ IoIdle
    /\ namespace = (nick_a :> UserEntity(1)) @@ (chan_x :> ChanEntity(1))
    /\ ctype = [c \in Clients |-> IF c = 1 THEN "User" ELSE "ProtoUser"]
    /\ proto = [c \in Clients |-> IF c = 1 THEN NoProto ELSE [NoProto EXCEPT !.nick = nick_a]]
    /\ users = [c \in Clients |->
                  IF c = 1 THEN [NoUser EXCEPT !.nick = nick_a, !.username = "u1", !.real_name = "r1",
                                               !.channel_list = (chan_x :> 1)]
                  ELSE NoUser]
    /\ chans = <<add_user(NewChannel(chan_x), 1, nick_a, "Op")>>
    /\ pc = [c \in Clients |-> "idle"]
    /\ cur = [c \in Clients |-> NoCmd]
    /\ ret = Ret(0, "none")
    /\ outbox = [c \in Clients |-> {}]
    /\ ops = MaxTalkOps

NextTalk ==
    \/ \E c \in Clients : nick(c, nick_b)
    \/ \E c \in Clients : try_nick_change(c)
    \/ \E c \in Clients : user(c, "u2", "r2", 4)
    \/ \E c \in Clients : RegisterDrop(c)
    \/ \E c \in Clients : join(c, chan_x)
    \/ \E c \in Clients : JoinIsJoined(c)
    \/ \E c \in Clients : JoinAdd(c)
    \/ \E c \in Clients : JoinNotify(c)
    \/ \E c \in Clients : JoinInsert(c)
    \/ \E c \in Clients : JoinAddOp(c)
    \/ \E c \in Clients : JoinAddChannel(c)
    \/ \E c \in Clients, ch \in TopicChans, k \in TopicParams : topic(c, ch, k, "t1")
    \/ \E c \in Clients : TopicIsJoined(c)
    \/ \E c \in Clients : TopicGet(c)
    \/ \E c \in Clients : TopicIsOp(c)
    \/ \E c \in Clients : TopicSet(c)
    \/ \E c \in Clients, notice \in BOOLEAN, k \in MsgParams, t \in MsgTargets : msg(c, notice, k, t)
    \/ \E c \in Clients : MsgGetName(c)
    \/ \E c \in Clients : MsgFetchClient(c)
    \/ \E c \in Clients : MsgClearChan(c)
    \/ \E c \in Clients : MsgClearRemoveChan(c)
    \/ \E c \in Clients : MsgDropUser(c)
    \/ \E c \in Clients : MsgCleanup(c)
    \/ \E c \in Clients : MsgPurgeCollect(c)
    \/ \E c \in Clients : MsgPurgeIsEmpty(c)
    \/ \E c \in Clients : MsgPurgeRemoveName(c)
    \/ \E c \in Clients : MsgPurgeKey(c)
    \/ \E c \in Clients : MsgChan(c)
    \/ \E c \in Clients : Disconnect(c)
    \/ \E c \in Clients : DropChan(c)
    \/ \E c \in Clients : DropRemoveChan(c)
    \/ \E c \in Clients : DropUser(c)

SpecTalk == InitTalk /\ [][NextTalk]_vars

(* SpecIds: connection tasks calling assign_id on a new Core.              *)
(* Calls on one MessageBuffer, from MessageBuffer::new.                    *)
CoreIdle ==
    /\ IdsAssigned
    /\ namespace = <<>>
    /\ ctype = [c \in Clients |-> "Unregistered"]
    /\ proto = [c \in Clients |-> NoProto]
    /\ users = [c \in Clients |-> NoUser]
    /\ chans = <<>>
    /\ pc = [c \in Clients |-> "idle"]
    /\ cur = [c \in Clients |-> NoCmd]
    /\ ret = Ret(0, "none")
    /\ outbox = [c \in Clients |-> {}]

InitBuf ==
    /\ CoreIdle
    /\ IoIdle
    /\ ops = MaxBufOps

NextBuf ==
    \/ \E message_string \in Chunks : BufAppend(message_string)
    \/ BufExtract

SpecBuf == InitBuf /\ [][NextBuf]_vars

(* A connection on which the peer sends whole frames, read in arbitrary    *)
(* pieces.                                                                 *)
FrameSet == {<<78, CR, LF>>, <<65, 66, CR, LF>>}

RECURSIVE Flatten(_)
Flatten(ss) == IF ss = <<>> THEN <<>> ELSE Head(ss) \o Flatten(Tail(ss))

Streams == UNION {[1..n -> FrameSet] : n \in 1..MaxFrames}

InitFrame ==
    /\ CoreIdle
    /\ ops = 0
    /\ buffer = NewBuffer
    /\ index = 0
    /\ buf_ret = NoBufRet
    /\ stream \in Streams
    /\ pending = Flatten(stream)
    /\ frames = <<>>
    /\ reading = "read"
    /\ message = <<>>
    /\ parsed = NoParsed
    /\ rpl = NoRpl

NextFrame ==
    \/ \E n \in 1..(MaxFrames * 4) : SockRead(n)
    \/ Drain

SpecFrame == InitFrame /\ [][NextFrame]_vars

(* One call of parse_message on one frame.                                 *)
InitParse ==
    /\ CoreIdle
    /\ ops = 0
    /\ buffer = NewBuffer
    /\ index = 0
    /\ buf_ret = NoBufRet
    /\ stream = <<>>
    /\ pending = <<>>
    /\ frames = <<>>
    /\ reading = "read"
    /\ message \in Messages
    /\ parsed = NoParsed
    /\ rpl = NoRpl

NextParse == ParseMessage

SpecParse == InitParse /\ [][NextParse]_vars

(* One call of send_rpl.                                                   *)
InitRpl ==
    /\ CoreIdle
    /\ ops = 0
    /\ buffer = NewBuffer
    /\ index = 0
    /\ buf_ret = NoBufRet
    /\ stream = <<>>
    /\ pending = <<>>
    /\ frames = <<>>
    /\ reading = "read"
    /\ message = <<>>
    /\ parsed = NoParsed
    /\ rpl \in {RplStart(host, chan, reply) : host \in RplHosts, chan \in RplChans, reply \in RplReplies}

NextRpl ==
    \/ RplClientGone
    \/ RplBegin
    \/ RplLoop

SpecRpl == InitRpl /\ [][NextRpl]_vars

InitIds ==
    /\ IoIdle
    /\ id_counter = 0
    /\ id_calls = [c \in Clients |-> NoCall]
    /\ id_log = <<>>
    /\ namespace = <<>>
    /\ ctype = [c \in Clients |-> "Unregistered"]
    /\ proto = [c \in Clients |-> NoProto]
    /\ users = [c \in Clients |-> NoUser]
    /\ chans = <<>>
    /\ pc = [c \in Clients |-> "idle"]
    /\ cur = [c \in Clients |-> NoCmd]
    /\ ret = Ret(0, "none")
    /\ outbox = [c \in Clients |-> {}]
    /\ ops = 0

NextIds ==
    \/ \E c \in Clients : AssignIdCall(c)
    \/ \E c \in Clients : assign_id(c)
    \/ \E c \in Clients : AssignIdReturn(c)

SpecIds == InitIds /\ [][NextIds]_vars

(* ============================== claims ================================ *)
Holders(n) == {c \in Clients : UserLive(c) /\ users[c].nick = n}

(* C1: create-if-absent makes the calls that target one name exclusive:    *)
(* of the register and nick-change calls for a name, one succeeds and the  *)
(* others get NicknameInUse, so no two live users ever hold the same nick. *)
C1_ExactlyOneCallSucceeds ==
    \A n \in Nicks : Cardinality(Holders(n)) <= 1

(* C2: the step that ends a register call failing with NicknameInUse       *)
(* leaves the client in ProtoUser and the namespace as it was, the entry   *)
(* of the user that already held the nick included.                        *)
C2_FailedRegisterLeavesNamespace ==
    [][\A c \in Clients :
          (pc[c] = "reg_drop" /\ ret' = Ret(c, "NicknameInUse"))
          => (ctype'[c] = "ProtoUser" /\ namespace' = namespace)]_vars

(* C3: every User entry of the namespace, stored under key N, refers to a  *)
(* user whose own nick field is N.                                         *)
C3_UserEntryMatchesNick ==
    \A n \in DOMAIN namespace :
        namespace[n].kind = "User" => users[namespace[n].ref].nick = n

(* C4: no two keys of the namespace are equal after RFC 2812 case folding. *)
C4_KeysUniqueUnderFolding ==
    \A k1, k2 \in DOMAIN namespace : Fold(k1) = Fold(k2) => k1 = k2

(* C5: the handshake. From Unregistered, NICK n with n valid and free, or  *)
(* USER u h s r, leads to ProtoUser holding what was sent and leaves the   *)
(* namespace alone; the second command, when n is still free as register   *)
(* inserts it, ends in the User state with get_nick(n) a live User whose   *)
(* username is u and whose realname is r.                                  *)
C5_FirstNick(c, n) ==
    (nick(c, n) /\ ctype[c] = "Unregistered" /\ valid_nick(n) /\ ~contains_key(namespace, n))
    => /\ ctype'[c] = "ProtoUser"
       /\ proto'[c] = [NoProto EXCEPT !.nick = n]
       /\ namespace' = namespace

C5_FirstUser(c, u, r) ==
    (user(c, u, r, 4) /\ ctype[c] = "Unregistered")
    => /\ ctype'[c] = "ProtoUser"
       /\ proto'[c] = [NoProto EXCEPT !.username = u, !.real_name = r]
       /\ namespace' = namespace

C5_Registered(c, n, u, r) ==
    /\ ctype'[c] = "User"
    /\ get_nick(namespace', n) = c
    /\ UserLive(c)'
    /\ users'[c].nick = n
    /\ users'[c].username = u
    /\ users'[c].real_name = r

C5_UserAfterNick(c, u, r) ==
    (/\ user(c, u, r, 4)
     /\ ctype[c] = "ProtoUser"
     /\ proto[c].nick # NoName
     /\ ~contains_key(namespace, proto[c].nick))
    => C5_Registered(c, proto[c].nick, u, r)

C5_NickAfterUser(c) ==
    (NickRegister(c) /\ ~contains_key(namespace, cur[c].nick))
    => C5_Registered(c, cur[c].nick, proto[c].username, proto[c].real_name)

C5_Handshake ==
    [][\A c \in Clients :
          /\ \A n \in Nicks : C5_FirstNick(c, n)
          /\ \A a \in UserArgs : C5_FirstUser(c, a[1], a[2]) /\ C5_UserAfterNick(c, a[1], a[2])
          /\ C5_NickAfterUser(c)]_vars

(* a client that sent USER u2 .. r2 and then NICK a is the live user a     *)
C5_Witness ==
    \E c \in Clients :
        /\ ctype[c] = "User"
        /\ ret = Ret(c, "Ok")
        /\ get_nick(namespace, nick_a) = c
        /\ users[c].username = "u2"
        /\ users[c].real_name = "r2"

(* C6: a second USER before any NICK replaces the pending username and     *)
(* realname, leaves the client in ProtoUser, and the handler returns.      *)
C6_SecondUserCompletes ==
    [][\A c \in Clients : \A a \in UserArgs :
          (user(c, a[1], a[2], 4) /\ ctype[c] = "ProtoUser" /\ proto[c].nick = NoName)
          => /\ pc'[c] = "idle"
             /\ ctype'[c] = "ProtoUser"
             /\ proto'[c] = [proto[c] EXCEPT !.username = a[1], !.real_name = a[2]]]_vars

(* C7: NICK n with n a key of the namespace returns NicknameInUse, NICK    *)
(* with an invalid n returns ErroneusNickname, and either way the client   *)
(* type with its pending fields, the user and the namespace are unchanged. *)
C7_Frame(c) ==
    /\ pc'[c] = "idle"
    /\ ctype' = ctype
    /\ proto' = proto
    /\ users' = users
    /\ namespace' = namespace

C7_NickRejected ==
    [][\A c \in Clients : \A n \in Nicks :
          nick(c, n) =>
             /\ ~valid_nick(n) => (ret' = Ret(c, "ErroneusNickname") /\ C7_Frame(c))
             /\ (valid_nick(n) /\ contains_key(namespace, n)) => (ret' = Ret(c, "NicknameInUse") /\ C7_Frame(c))]_vars

(* an Unregistered client was refused a nick that another client holds     *)
C7_Witness ==
    \E c \in Clients :
        /\ ret = Ret(c, "NicknameInUse")
        /\ ctype[c] = "Unregistered"
        /\ \E d \in Clients \ {c} : UserLive(d) /\ get_nick(namespace, users[d].nick) = d

(* C8: any USER from a client in the User state yields AlreadyRegistered   *)
(* and changes neither the client, the user nor the namespace.             *)
C8_Frame(c) ==
    /\ pc'[c] = "idle"
    /\ ctype' = ctype
    /\ proto' = proto
    /\ users' = users
    /\ namespace' = namespace

C8_AnyUserAlreadyRegistered ==
    [][\A c \in Clients : \A a \in UserArgs : \A k \in ParamCounts :
          (user(c, a[1], a[2], k) /\ ctype[c] = "User")
          => (ret' = Ret(c, "AlreadyRegistred") /\ C8_Frame(c))]_vars

(* C8 as amended: with exactly 4 parameters the error is AlreadyRegistered, *)
(* with any other count it is NeedMoreParams; nothing changes either way.  *)
C8_UserWhenRegistered ==
    [][\A c \in Clients : \A a \in UserArgs : \A k \in ParamCounts :
          (user(c, a[1], a[2], k) /\ ctype[c] = "User")
          => /\ C8_Frame(c)
             /\ k = 4 => ret' = Ret(c, "AlreadyRegistred")
             /\ k # 4 => ret' = Ret(c, "NeedMoreParams")]_vars

C8_Witness ==
    \E c \in Clients :
        /\ ret = Ret(c, "AlreadyRegistred")
        /\ ctype[c] = "User"
        /\ get_nick(namespace, users[c].nick) = c

(* the names of the channels of the namespace that have user c as a member *)
Memberships(c) ==
    {k \in DOMAIN namespace :
        /\ namespace[k].kind = "Chan"
        /\ \E m \in DOMAIN chans[namespace[k].ref].members : chans[namespace[k].ref].members[m].user = c}

(* the other live users on a channel of the namespace that c is on         *)
Peers(c) ==
    {d \in Clients \ {c} : UserLive(d) /\ Memberships(c) \cap Memberships(d) # {}}

(* C9: NICK b from registered user U with nick a. When it returns success, *)
(* get_nick(a) is None, get_nick(b) is U, U.nick = b and U is a member of  *)
(* the same channels as before; when it returns NicknameInUse, the         *)
(* namespace, U.nick and the memberships are unchanged.                    *)
C9_NickChangePostcondition ==
    [][\A c \in Clients :
          try_nick_change(c) =>
             /\ ret' = Ret(c, "Ok") =>
                   /\ get_nick(namespace', users[c].nick) = 0
                   /\ get_nick(namespace', cur[c].nick) = c
                   /\ users'[c].nick = cur[c].nick
                   /\ Memberships(c)' = Memberships(c)
             /\ ret' = Ret(c, "NicknameInUse") =>
                   /\ namespace' = namespace
                   /\ users' = users
                   /\ chans' = chans]_vars

(* C10: when the NICK handler of a registered user returns having changed  *)
(* the nick, a NICK line with the old nick as its prefix has been written  *)
(* to every other member of every channel the user is on.                  *)
C10_NickChangeBroadcast ==
    [][\A c \in Clients :
          (try_nick_change(c) /\ users'[c].nick # users[c].nick)
          => \A m \in Peers(c) : Line("NICK", users[c].nick, users'[c].nick) \in outbox'[m]]_vars

(* C11: join_chan is a get-or-create. When registered users join the same  *)
(* valid channel name that is not in the namespace yet, every one of the   *)
(* calls succeeds: none of them comes back with NicknameInUse from the     *)
(* insert of the channel it built.                                         *)
C11_ConcurrentJoinsSucceed ==
    [][\A c \in Clients :
          (JoinInsert(c) /\ valid_channel(cur[c].chan) /\ UserLive(c))
          => ~(pc'[c] = "idle" /\ ret' = Ret(c, "NicknameInUse"))]_vars

(* the users that hold the Op flag in a channel object                     *)
OpsOf(ch) == {ch.members[k].user : k \in {x \in DOMAIN ch.members : ch.members[x].flags = "Op"}}

OpsBefore(id) == IF id \in DOMAIN chans THEN OpsOf(chans[id]) ELSE {}

(* C12: operator assignment on join. The user whose insert_name created    *)
(* the channel entry is added with Op; a user added to a channel that      *)
(* get_chan found is added with no flags; and a user gains Op in a channel *)
(* object in no other step, so a member holds Op only if it created the    *)
(* channel entry.                                                          *)
C12_OperatorOnJoin ==
    [][\A c \in Clients :
          /\ (pc'[c] = "join_add_op" /\ pc[c] # "join_add_op")
             => /\ JoinInsert(c)
                /\ ~contains_key(namespace, cur[c].chan)
                /\ get_chan(namespace', cur[c].chan) = cur[c].obj
          /\ JoinAddOp(c)
             => chans'[cur[c].obj].members[users[c].nick] = [user |-> c, flags |-> "Op"]
          /\ JoinAdd(c)
             => chans'[cur[c].obj].members[users[c].nick] = [user |-> c, flags |-> "None"]
          /\ \A id \in DOMAIN chans' :
                (c \in OpsOf(chans'[id]) /\ c \notin OpsBefore(id))
                => (JoinAddOp(c) /\ cur[c].obj = id)]_vars

(* a channel of the namespace with its creator as Op and a later joiner    *)
(* without flags                                                           *)
C12_Witness ==
    \E c, d \in Clients :
        /\ c # d
        /\ get_chan(namespace, chan_x) # 0
        /\ c \in OpsOf(chans[get_chan(namespace, chan_x)])
        /\ \E k \in DOMAIN chans[get_chan(namespace, chan_x)].members :
              chans[get_chan(namespace, chan_x)].members[k] = [user |-> d, flags |-> "None"]
        /\ chan_x \in DOMAIN users[d].channel_list

(* user c has an entry in the member map of channel object id              *)
IsMember(c, id) == \E k \in DOMAIN chans[id].members : chans[id].members[k].user = c

C13_Frame ==
    /\ chans' = chans
    /\ users' = users
    /\ namespace' = namespace
    /\ outbox' = outbox

(* C13: join_chan by a user that is already a member of the named channel  *)
(* is a no-op: the lookup and the is_joined test leave every member map    *)
(* with its flags, every channel_list and the namespace unchanged, write   *)
(* no JOIN notification, and the call returns Ok.                          *)
C13_RejoinIsNoOp ==
    [][\A c \in Clients :
          /\ \A name \in ChanNames :
                (/\ join(c, name)
                 /\ get_chan(namespace, name) # 0
                 /\ IsMember(c, get_chan(namespace, name)))
                => (C13_Frame /\ pc'[c] = "join_is_joined")
          /\ (JoinIsJoined(c) /\ IsMember(c, cur[c].obj))
             => (C13_Frame /\ pc'[c] = "idle" /\ ret' = Ret(c, "Ok"))]_vars

(* C14: part_chan by a member passes the is_joined test and removes the    *)
(* membership on both sides, the member map and the channel_list; when the *)
(* channel is then seen empty its name is removed from the namespace, so   *)
(* that get_chan(name) is None when the PART that emptied it completes.    *)
C14_PartRemovesMembership ==
    [][\A c \in Clients :
          /\ (PartIsJoined(c) /\ IsMember(c, cur[c].obj)) => pc'[c] = "part_unlink"
          /\ (PartUnlink(c) /\ IsMember(c, cur[c].obj))
             => /\ ~IsMember(c, cur[c].obj)'
                /\ cur[c].chan \notin DOMAIN users'[c].channel_list
          /\ (PartIsEmpty(c) /\ is_empty(chans[cur[c].obj])) => pc'[c] = "part_remove_name"
          /\ PartRemoveName(c) => get_chan(namespace', cur[c].chan) = 0]_vars

C15_Frame ==
    /\ namespace' = namespace
    /\ chans' = chans
    /\ users' = users

(* the loop of part() goes on to the next target of the list               *)
C15_GoesOn(c) ==
    Tail(cur[c].targets) # <<>>
    => (pc'[c] = "part_get_chan" /\ cur'[c].targets = Tail(cur[c].targets))

(* C15: part_chan on a name that is not a channel of the namespace yields  *)
(* NoSuchChannel, and on a channel that does not have the user as a member *)
(* yields NotOnChannel; either way the namespace, the member maps and the  *)
(* channel_lists are unchanged, and the remaining targets of the list are  *)
(* still processed.                                                        *)
C15_PartErrors ==
    [][\A c \in Clients :
          /\ (PartGetChan(c) /\ get_chan(namespace, Head(cur[c].targets)) = 0)
             => /\ Line("NoSuchChannel", NoName, Head(cur[c].targets)) \in outbox'[c]
                /\ C15_Frame
                /\ C15_GoesOn(c)
          /\ (PartIsJoined(c) /\ ~IsMember(c, cur[c].obj))
             => /\ Line("NotOnChannel", NoName, cur[c].chan) \in outbox'[c]
                /\ C15_Frame
                /\ C15_GoesOn(c)]_vars

(* C16: membership symmetry. In a state in which no handler and no         *)
(* teardown is in progress, for every channel in the namespace and every   *)
(* registered user M: M is in the member map of the channel if and only if *)
(* the channel's name is a key of M's channel_list.                        *)
C16_MembershipSymmetry ==
    (\A c \in Clients : pc[c] = "idle")
    => \A m \in Clients : \A k \in DOMAIN namespace :
          (ctype[m] = "User" /\ namespace[k].kind = "Chan")
          => (IsMember(m, namespace[k].ref) <=> k \in DOMAIN users[m].channel_list)

MemberOf(ch, c) == \E k \in DOMAIN ch.members : ch.members[k].user = c

(* the member map of channel object id without the entries of user c       *)
OtherMembers(id, c) ==
    [k \in {x \in DOMAIN chans[id].members : chans[id].members[x].user # c} |-> chans[id].members[k]]

(* C17: user teardown. Each channel of the channel_list loses the user and *)
(* keeps its other members; a channel left without members is removed     *)
(* from the namespace, one that still has members stays in it; and when    *)
(* the teardown ends the user's nick is out of the namespace and the user  *)
(* is in the member map of no channel of the namespace.                    *)
C17_Teardown ==
    [][\A c \in Clients :
          /\ DropChan(c) =>
                \A name \in DOMAIN users[c].channel_list \ DOMAIN users'[c].channel_list :
                   LET id == users[c].channel_list[name]
                   IN ChanAlive(id) =>
                        /\ chans'[id].members = OtherMembers(id, c)
                        /\ namespace' = namespace
                        /\ IsMember(c, id) => (is_empty(chans'[id]) <=> pc'[c] = "drop_rm_chan")
          /\ DropRemoveChan(c) => get_chan(namespace', cur[c].chan) = 0
          /\ DropUser(c) =>
                /\ ~contains_key(namespace', users[c].nick)
                /\ \A k \in DOMAIN namespace' :
                      namespace'[k].kind = "Chan" => ~MemberOf(chans'[namespace'[k].ref], c)]_vars

(* C18: the ids returned by assign_id are pairwise distinct positive       *)
(* integers, the first value handed out is 1, and each call returns a      *)
(* value greater than every value returned by a call that had returned     *)
(* when it began.                                                          *)
C18_IdsDistinctIncreasing ==
    [][/\ \A i, j \in DOMAIN id_log' : i # j => id_log'[i] # id_log'[j]
       /\ \A i \in DOMAIN id_log' : id_log'[i] >= 1
       /\ \A c \in Clients :
             /\ (assign_id(c) /\ id_counter = 0) => id_calls'[c].val = 1
             /\ AssignIdReturn(c) =>
                   \A i \in 1..id_calls[c].before : id_log[i] < id_calls[c].val]_vars

(* two overlapping calls returned in the opposite order of their turns     *)
(* under the lock, and a third call that began after both returned 3       *)
C18_Witness ==
    /\ Len(id_log) >= 3
    /\ id_log[1] = 2
    /\ id_log[2] = 1
    /\ id_log[3] = 3

(* C19: the topic of a channel changes only in the set step of a TOPIC     *)
(* with two parameters from a user that is a member of the channel and     *)
(* holds Op. TOPIC with a new topic returns NoSuchChannel on an unknown    *)
(* channel, NotOnChannel from a non-member, ChanOPrivsNeeded from a member *)
(* without Op, and leaves every topic unchanged in these three cases.      *)
C19_TopicOnlyByOperator ==
    [][/\ \A id \in DOMAIN chans :
             chans'[id].topic # chans[id].topic
             => \E c \in Clients :
                   /\ TopicSet(c)
                   /\ cur[c].obj = id
                   /\ cur[c].nparams = 2
                   /\ c \in OpsOf(chans[id])
       /\ \A c \in Clients :
             /\ \A ch \in TopicChans :
                   (topic(c, ch, 2, "t1") /\ get_chan(namespace, ch) = 0)
                   => (ret' = Ret(c, "NoSuchChannel") /\ pc'[c] = "idle" /\ chans' = chans)
             /\ (TopicIsJoined(c) /\ cur[c].nparams = 2 /\ ~IsMember(c, cur[c].obj))
                => (ret' = Ret(c, "NotOnChannel") /\ pc'[c] = "idle" /\ chans' = chans)
             /\ (TopicIsOp(c) /\ IsMember(c, cur[c].obj) /\ c \notin OpsOf(chans[cur[c].obj]))
                => (ret' = Ret(c, "ChanOPrivsNeeded") /\ pc'[c] = "idle" /\ chans' = chans)]_vars

IrcErrors == {"NoRecipient", "NoTextToSend", "NoSuchNick", "NoSuchChannel", "NotOnChannel", "ChanOPrivsNeeded"}

ErrLines(c) == {l \in outbox[c] : l.cmd \in IrcErrors}

(* C20: a NOTICE from a registered user returns Ok and adds no error       *)
(* numeric to the sender's lines, whatever its parameters and whatever its *)
(* targets resolve to (absent name, dead user reference included); a       *)
(* PRIVMSG without parameters returns NoRecipient, with the targets only   *)
(* NoTextToSend, and for a target absent from the namespace the sender     *)
(* gets NoSuchNick.                                                        *)
C20_NoticeNeverErrors ==
    [][\A c \in Clients :
          /\ \A k \in MsgParams, t \in MsgTargets :
                /\ msg(c, TRUE, k, t)
                   => /\ ErrLines(c)' = ErrLines(c)
                      /\ pc'[c] = "idle" => ret' = Ret(c, "Ok")
                      /\ k < 2 => pc'[c] = "idle"
                /\ msg(c, FALSE, 0, t) => (pc'[c] = "idle" /\ ret' = Ret(c, "NoRecipient"))
                /\ msg(c, FALSE, 1, t) => (pc'[c] = "idle" /\ ret' = Ret(c, "NoTextToSend"))
          /\ (cur[c].notice /\ pc[c] # "idle")
             => /\ ErrLines(c)' = ErrLines(c)
                /\ pc'[c] = "idle" => ret' = Ret(c, "Ok")
          /\ (MsgGetName(c) /\ ~cur[c].notice /\ ~contains_key(namespace, Head(cur[c].targets)))
             => Line("NoSuchNick", NoName, Head(cur[c].targets)) \in outbox'[c]]_vars

(* a NOTICE whose target was a dead user reference has run the cleanup and *)
(* its sender has no error numeric                                         *)
C20_Witness ==
    \E c \in Clients :
       /\ pc[c] = "msg_purge_collect"
       /\ cur[c].notice
       /\ ~contains_key(namespace, cur[c].nick)
       /\ ErrLines(c) = {}

(* C21: append fails with OverFlow exactly when index + len exceeds 512; a *)
(* failed append leaves index and the bytes below index as they were; a    *)
(* successful one stores the bytes in order from position index on and     *)
(* advances index by their number. 512 bytes fit into an empty buffer, 513 *)
(* do not.                                                                 *)
C21_AppendOverflow ==
    [][\A ms \in Chunks :
          BufAppend(ms)
          => /\ ~buf_ret'.ok <=> (index + Len(ms) > MESSAGE_SIZE)
             /\ ~buf_ret'.ok => /\ index' = index
                                /\ SubSeq(buffer', 1, index) = SubSeq(buffer, 1, index)
             /\ buf_ret'.ok => /\ index' = index + Len(ms)
                               /\ \A i \in 1..Len(ms) : buffer'[index + i] = ms[i]
             /\ (index = 0 /\ Len(ms) = 512) => buf_ret'.ok
             /\ (index = 0 /\ Len(ms) = 513) => ~buf_ret'.ok]_vars

(* 510 bytes are buffered and an append of three more was refused          *)
C21_Witness ==
    /\ buf_ret.op = "append"
    /\ ~buf_ret.ok
    /\ Len(buf_ret.out) = 3
    /\ index = MESSAGE_SIZE - 2
    /\ \A p \in 1..index : buffer[p] = 97

CrLfAt == {k \in 0..(index - 2) : buffer[k + 1] = CR /\ buffer[k + 2] = LF}

FirstCrLf == CHOOSE k \in CrLfAt : \A j \in CrLfAt : k <= j

(* C22: with no CR LF among the buffered bytes, extract returns None and   *)
(* leaves index and the buffered bytes as they are, also when index > 0.   *)
C22_ExtractWaits ==
    [][(BufExtract /\ CrLfAt = {})
       => /\ ~buf_ret'.ok
          /\ index' = index
          /\ SubSeq(buffer', 1, index) = SubSeq(buffer, 1, index)]_vars

(* C23: with the first CR LF at offset k, extract returns exactly the      *)
(* bytes [0, k+2), and what was at [k+2, index) is afterwards at offset 0, *)
(* in the same order, with index lowered by k+2.                           *)
C23_ExtractFirstFrame ==
    [][(BufExtract /\ CrLfAt # {})
       => /\ buf_ret'.ok
          /\ buf_ret'.out = SubSeq(buffer, 1, FirstCrLf + 2)
          /\ index' = index - (FirstCrLf + 2)
          /\ SubSeq(buffer', 1, index') = SubSeq(buffer, FirstCrLf + 3, index)]_vars

(* C24: whatever the pieces in which the frames of a stream arrive, the    *)
(* strings that extract yields are the frames of the stream, whole and in  *)
(* order, and once everything was read and drained they are all of them.   *)
C24_FramingRoundTrip ==
    /\ Len(frames) <= Len(stream)
    /\ \A i \in 1..Len(frames) : frames[i] = stream[i]
    /\ (pending = <<>> /\ reading = "read") => frames = stream

(* the frame was built from prefix pfx, command "C", n middle parameters   *)
(* and trailing text t, and parse_message has returned                     *)
ParsedFrom(pfx, n, t) == parsed.done /\ message = Msg(pfx, <<67>>, n, t)

(* the text from the 15th token of the parameters on                       *)
Remainder(n, t) ==
    Join(SubSeq(Middles(n), MAX_MSG_PARAMS, n))
        \o (IF t = NoTrail THEN <<>> ELSE <<SP, COLON>> \o t)

(* C25: an accepted frame has at most 15 parameters; when the parameters   *)
(* hold more than 15 tokens and no trailing separator applies (there is no *)
(* SP ':' or it comes after 15 or more tokens), the first 14 parameters    *)
(* are the first 14 tokens and the 15th is the rest of the line verbatim.  *)
C25_FifteenParams ==
    /\ (parsed.done /\ parsed.ok) => Len(parsed.params) <= MAX_MSG_PARAMS
    /\ \A pfx \in Prefixes, n \in 0..MaxMiddles, t \in TrailTexts \cup {NoTrail} :
          (/\ ParsedFrom(pfx, n, t)
           /\ \/ t = NoTrail /\ n > MAX_MSG_PARAMS
              \/ t # NoTrail /\ n >= MAX_MSG_PARAMS)
          => /\ parsed.ok
             /\ Len(parsed.params) = MAX_MSG_PARAMS
             /\ SubSeq(parsed.params, 1, MAX_MSG_PARAMS - 1) = SubSeq(Middles(n), 1, MAX_MSG_PARAMS - 1)
             /\ parsed.params[MAX_MSG_PARAMS] = Remainder(n, t)

(* C26, as stated: after 14 middle parameters the SP ':' is data: there    *)
(* are 15 parameters and the 15th is the rest of the line, colon included. *)
C26_ColonIsData ==
    \A pfx \in Prefixes, t \in TrailTexts :
       ParsedFrom(pfx, MAX_MSG_PARAMS - 1, t)
       => /\ parsed.ok
          /\ Len(parsed.params) = MAX_MSG_PARAMS
          /\ parsed.params[MAX_MSG_PARAMS] = <<COLON>> \o t

(* C26, amended: after exactly 14 middle parameters the SP ':' is still    *)
(* the trailing separator: there are 15 parameters, the 14 middles and the *)
(* text after the colon, verbatim, without the colon.                      *)
C26_ColonAfter14Separates ==
    \A pfx \in Prefixes, t \in TrailTexts :
       ParsedFrom(pfx, MAX_MSG_PARAMS - 1, t)
       => /\ parsed.ok
          /\ parsed.params = Middles(MAX_MSG_PARAMS - 1) \o <<t>>

(* "C b c ... o :x y" was parsed: 14 middles, and "x y" as the 15th        *)
C26_Witness ==
    /\ ParsedFrom(<<>>, MAX_MSG_PARAMS - 1, <<120, SP, 121>>)
    /\ parsed.ok
    /\ Len(parsed.params) = MAX_MSG_PARAMS
    /\ parsed.params[MAX_MSG_PARAMS] = <<120, SP, 121>>

(* C27: with fewer than 14 middle parameters, none included, the text      *)
(* after the SP ':' is exactly one final parameter, verbatim, without the  *)
(* colon, not split on spaces.                                             *)
C27_TrailingRule ==
    \A pfx \in Prefixes, n \in 0..(MAX_MSG_PARAMS - 2), t \in TrailTexts :
       ParsedFrom(pfx, n, t)
       => /\ parsed.ok
          /\ parsed.params = Middles(n) \o <<t>>


(* C28: a NameReply whose line exceeds 510 bytes is sent as several lines, *)
(* each at most 510 bytes, which together carry every nick once and in the *)
(* original order; the capacity of a line is computed without underflow.   *)
C28_NameReplySplit ==
    (rpl.kind = "NameReply" /\ rpl.pc # "start") =>
        /\ rpl.pc # "panic"
        /\ ~rpl.overhead.wrapped
        /\ \A k \in 1..Len(rpl.sent) :
              NameReplyLen(rpl.host, rpl.chan, rpl.sent[k]) <= MAX_MSG_SIZE - 2
        /\ (rpl.pc = "done" /\ rpl.ret = "Ok" /\ Len(rpl.sent) < MaxLines) =>
              Flatten(rpl.sent) = rpl.orig

(* C30: every pass through the splitting loop of send_rpl makes progress:  *)
(* it leaves fewer nicks to send or moves on to the next nick, so the loop *)
(* ends after finitely many lines.                                         *)
C30_LoopProgress ==
    [][(rpl.pc = "loop" /\ rpl'.pc = "loop" /\ rpl'.tick # rpl.tick) =>
          \/ Len(rpl'.nick_vec) < Len(rpl.nick_vec)
          \/ Len(rpl'.nick_vec) = Len(rpl.nick_vec) /\ rpl'.i > rpl.i]_vars

(* C29: no operation other than try_nick_change asks for the namespace     *)
(* lock while it holds a user's channel_list lock.                         *)
C29_LockOrder ==
    \A c \in Clients : channel_list_held(c) # 0 => ~namespace_requested(c)

(* C31: every live registered user stays reachable. When no handler is at  *)
(* work for a client in the User state or holds its user, the namespace    *)
(* has an entry under the user's nick and the entry refers to that user.   *)
C31_LiveUserReachable ==
    \A c \in Clients :
        (ctype[c] = "User" /\ pc[c] = "idle" /\ ~\E h \in Clients : cur[h].user = c)
        => get_name(namespace, users[c].nick) = UserEntity(c)

(* a step takes the channel entry under k out of the namespace only when   *)
(* the channel object has no members before the step                       *)
RemovedOnlyWhenEmpty ==
    \A k \in DOMAIN namespace :
        (namespace[k].kind = "Chan" /\ get_name(namespace', k) # namespace[k])
        => is_empty(chans[namespace[k].ref])

(* a user at rest that has a channel name in its channel_list is a member  *)
(* of the channel the namespace holds under that name                      *)
JoinedIsInNamespace ==
    \A m \in Clients : \A k \in DOMAIN users[m].channel_list :
        (ctype[m] = "User" /\ pc[m] = "idle")
        => /\ get_chan(namespace, k) # 0
           /\ IsMember(m, get_chan(namespace, k))

(* C32: a channel entry leaves the namespace only when the channel has no  *)
(* members at that moment, so under any interleaving of part_chan or       *)
(* teardown with join_chan a user whose join succeeded is a member of the  *)
(* channel that get_chan returns for the name.                             *)
C32_ChannelRemovalRace ==
    [][RemovedOnlyWhenEmpty /\ JoinedIsInNamespace']_vars

PurgeSteps == {"msg_purge_collect", "msg_purge", "msg_purge_rm_name", "msg_purge_key"}

(* C33: when search_user_chans_purge(nick) returns, nick is in the member  *)
(* map of no channel of the namespace and no channel of the namespace is   *)
(* without members, a channel whose last member was nick included.         *)
C33_PurgeLeavesNoEmptyChannel ==
    [][\A c \in Clients :
          (pc[c] \in PurgeSteps /\ pc'[c] \notin PurgeSteps)
          => \A k \in DOMAIN namespace' :
                namespace'[k].kind = "Chan"
                => /\ get_user_key(chans'[namespace'[k].ref], cur[c].nick) = NoName
                   /\ ~is_empty(chans'[namespace'[k].ref])]_vars
====
